---- MODULE Spec2Model ----
(***************************************************************************)
(* Conversation persistence of playdo: the ConversationRepository          *)
(* (create_new_conversation, add_messages_to_conversation,                 *)
(* get_conversation) over its two SQLite tables, and the HTTP handlers of  *)
(* endpoints/conversations.py that drive it.  Every handler opens its own  *)
(* connection; a statement is one atomic step; rows written inside an open *)
(* transaction are visible to that connection only, until commit.          *)
(***************************************************************************)
EXTENDS Integers, Sequences, FiniteSets, TLC

\* ---- bounds ----
MaxConv == 2      \* conversation ids that requests address / rows of conversation
MaxRows == 2      \* rows of the message table (one more when handlers run concurrently)
MaxBatch == 2     \* messages of one add_messages_to_conversation call
MaxClock == 1     \* last value of CURRENT_TIMESTAMP

Procs == {"h1", "h2"}
\* the handler that serves the requests when they come one at a time
SerialProcs == {"h1"}

\* Python None and SQL NULL; every other value of an Optional[str] is a string
None == "<None>"
\* a JSON value that is not a string: the list ["x"]
JsonArray == "<list>"
SqlNull == "<NULL>"

VARIABLES
    conversation,   \* committed table conversation: row id -> [created_at, updated_at]
    message,        \* committed table message, in rowid order
    txn,            \* per connection: the open write transaction's working tables
    clock,          \* CURRENT_TIMESTAMP
    proc,           \* per handler: position and local variables
    calls,          \* history: per conversation id, the batches committed by add calls, in order
    built,          \* a PlaydoMessage construction: its arguments, its outcome, its wire form
    created,        \* history: the ids that create_new_conversation calls returned, in order
    user,           \* committed table user, in rowid order
    op,             \* the last operation on users: its arguments, what it found, its outcome
    cli             \* the command-line chat program: its position, its locals, what it did

vars == <<conversation, message, txn, clock, proc, calls, built, created, user, op, cli>>

\* ---------------------------------------------------------------------
\* models.py
\* ---------------------------------------------------------------------
PlaydoContent(text) == [type |-> "text", text |-> text]

PlaydoMessage(role, content, editor_code, stdout, stderr) ==
    [role |-> role, content |-> content, editor_code |-> editor_code,
     stdout |-> stdout, stderr |-> stderr]

user_message(query, editor_code, stdout, stderr) ==
    PlaydoMessage("user", <<PlaydoContent(query)>>, editor_code, stdout, stderr)

ConversationHistory(id, created_at, updated_at, messages) ==
    [id |-> id, created_at |-> created_at, updated_at |-> updated_at, messages |-> messages]

NoConversation == ConversationHistory(0, 0, 0, <<>>)

\* what pydantic checks when PlaydoContent(...) / PlaydoMessage(...) is built: the Literal of
\* type and of role, and that content is given and is a list of PlaydoContent
PlaydoContentValid(c) == c.type = "text"

\* Optional[str]
OptionalStr(v) == v # JsonArray

PlaydoMessageValid(args) ==
    /\ args.role \in {"user", "assistant"}
    /\ args.has_content
    /\ \A j \in DOMAIN args.content : PlaydoContentValid(args.content[j])
    /\ OptionalStr(args.editor_code) /\ OptionalStr(args.stdout) /\ OptionalStr(args.stderr)

\* a str as the sequence of its non-empty pieces (the empty string is << >>)
Str(pieces) == SelectSeq(pieces, LAMBDA t : t # "")

\* " ".join(content.text for content in self.content)
RECURSIVE Join(_)
Join(texts) ==
    IF texts = <<>> THEN <<>>
    ELSE IF Len(texts) = 1 THEN <<texts[1]>>
    ELSE <<texts[1], " ">> \o Join(Tail(texts))

\* ET.SubElement(root, tag) with attributes and text, as ET.tostring and toprettyxml write
\* it: an element whose text is None or "" is written as an empty-element tag
Element(tag, attrs, text) ==
    IF Str(text) = <<>> THEN <<"<", tag>> \o attrs \o <<"/>">>
    ELSE <<"<", tag>> \o attrs \o <<">">> \o Str(text) \o <<"</", tag, ">">>

\* variant: `if self.editor_code:` / `if self.stdout:` / `if self.stderr:`
to_anthropic_xml_truthy(m) ==
    <<"<?xml version=1.0 ?>", "<message>">>
    \o Element("text", <<>>, Join([j \in DOMAIN m.content |-> m.content[j].text]))
    \o (IF m.editor_code \notin {None, ""} THEN Element("code", <<>>, <<m.editor_code>>) ELSE <<>>)
    \o (IF m.stdout \notin {None, ""} THEN Element("stdout", <<>>, <<m.stdout>>)
        ELSE Element("stdout", <<"status=stale_or_not_run">>, <<>>))
    \o (IF m.stderr \notin {None, ""} THEN Element("stderr", <<>>, <<m.stderr>>)
        ELSE Element("stderr", <<"status=stale_or_not_run">>, <<>>))
    \o <<"</message>">>

to_anthropic_xml(m) ==
    <<"<?xml version=1.0 ?>", "<message>">>
    \o Element("text", <<>>, Join([j \in DOMAIN m.content |-> m.content[j].text]))
    \o (IF m.editor_code # None THEN Element("code", <<>>, <<m.editor_code>>) ELSE <<>>)
    \o (IF m.stdout # None THEN Element("stdout", <<>>, <<m.stdout>>)
        ELSE Element("stdout", <<"status=stale_or_not_run">>, <<>>))
    \o (IF m.stderr # None THEN Element("stderr", <<>>, <<m.stderr>>)
        ELSE Element("stderr", <<"status=stale_or_not_run">>, <<>>))
    \o <<"</message>">>

\* the list of {"type": "text", "text": ...} dicts of the standard format
RECURSIVE TextBlocks(_)
TextBlocks(content) ==
    IF content = <<>> THEN <<>>
    ELSE <<"{", "type:", "text", "text:", Head(content).text, "}">> \o TextBlocks(Tail(content))

\* the MessageParam: content is either the XML str or the list of text blocks
to_anthropic_message(m) ==
    IF m.role = "user" /\ (m.editor_code # None \/ m.stdout # None \/ m.stderr # None)
    THEN [role |-> m.role, xml |-> TRUE, content |-> to_anthropic_xml(m)]
    ELSE [role |-> m.role, xml |-> FALSE, content |-> TextBlocks(m.content)]

\* ---------------------------------------------------------------------
\* json.dumps / json.loads of the content list, as a token sequence
\* ---------------------------------------------------------------------
RECURSIVE JsonObjects(_)
JsonObjects(content) ==
    IF content = <<>> THEN <<>>
    ELSE <<"{", "type:", Head(content).type, "text:", Head(content).text, "}">>
         \o JsonObjects(Tail(content))

JsonDumps(content) == <<"[">> \o JsonObjects(content) \o <<"]">>

JsonLoads(tokens) ==
    [k \in 1..((Len(tokens) - 2) \div 6) |->
        [type |-> tokens[1 + 6 * (k - 1) + 3], text |-> tokens[1 + 6 * (k - 1) + 5]]]

\* sqlite3 parameter binding and column fetch of an Optional[str]
BindParam(v) == IF v = None THEN SqlNull ELSE v
\* variant: `value or None` on the way back
ColumnValueFalsy(c) == IF c \in {SqlNull, ""} THEN None ELSE c
ColumnValue(c) == IF c = SqlNull THEN None ELSE c

\* ---------------------------------------------------------------------
\* SQL statements of conversation_repository.py
\* ---------------------------------------------------------------------
SetMax(S) == CHOOSE x \in S : \A y \in S : y <= x

SeqNumbers(rows, conversation_id) ==
    {rows[j].sequence_number : j \in {j \in DOMAIN rows : rows[j].conversation_id = conversation_id}}

\* variant: COALESCE(MAX(sequence_number), 0) + 1
NextSequenceFromOne(rows, conversation_id) ==
    (IF SeqNumbers(rows, conversation_id) = {} THEN 0
     ELSE SetMax(SeqNumbers(rows, conversation_id))) + 1

\* SELECT COALESCE(MAX(sequence_number), -1) + 1 FROM message WHERE conversation_id = ?
NextSequence(rows, conversation_id) ==
    (IF SeqNumbers(rows, conversation_id) = {} THEN -1
     ELSE SetMax(SeqNumbers(rows, conversation_id))) + 1

\* the row of one INSERT INTO message
MessageRow(conversation_id, i, m) ==
    [conversation_id |-> conversation_id, sequence_number |-> i, role |-> m.role,
     content |-> JsonDumps(m.content), editor_code |-> BindParam(m.editor_code),
     stdout |-> BindParam(m.stdout), stderr |-> BindParam(m.stderr)]

\* unique key (conversation_id, sequence_number) of table message
UniqueKeyViolated(rows, row) ==
    \E j \in DOMAIN rows :
        /\ rows[j].conversation_id = row.conversation_id
        /\ rows[j].sequence_number = row.sequence_number

\* ... WHERE conversation_id = ?  (rowid order)
RECURSIVE SelectWhere(_, _)
SelectWhere(rows, conversation_id) ==
    IF rows = <<>> THEN <<>>
    ELSE IF Head(rows).conversation_id = conversation_id
         THEN <<Head(rows)>> \o SelectWhere(Tail(rows), conversation_id)
         ELSE SelectWhere(Tail(rows), conversation_id)

RemoveAt(s, j) == SubSeq(s, 1, j - 1) \o SubSeq(s, j + 1, Len(s))

\* variant: ORDER BY sequence_number DESC
RECURSIVE OrderBySequenceNumberDesc(_)
OrderBySequenceNumberDesc(rows) ==
    IF rows = <<>> THEN <<>>
    ELSE LET j == CHOOSE j \in DOMAIN rows :
                      \A k \in DOMAIN rows : rows[j].sequence_number >= rows[k].sequence_number
         IN <<rows[j]>> \o OrderBySequenceNumberDesc(RemoveAt(rows, j))

\* ... ORDER BY sequence_number
RECURSIVE OrderBySequenceNumber(_)
OrderBySequenceNumber(rows) ==
    IF rows = <<>> THEN <<>>
    ELSE LET j == CHOOSE j \in DOMAIN rows :
                      /\ \A k \in DOMAIN rows : rows[j].sequence_number <= rows[k].sequence_number
                      /\ \A k \in 1..(j - 1) : rows[k].sequence_number > rows[j].sequence_number
         IN <<rows[j]>> \o OrderBySequenceNumber(RemoveAt(rows, j))

\* the loop body of get_conversation: one fetched row back to a PlaydoMessage
RowToMessage(row) ==
    PlaydoMessage(row.role, JsonLoads(row.content), ColumnValue(row.editor_code),
                  ColumnValue(row.stdout), ColumnValue(row.stderr))

\* the second SELECT of get_conversation and its loop
LoadMessages(rows, id) ==
    LET fetched == OrderBySequenceNumber(SelectWhere(rows, id))
    IN [j \in DOMAIN fetched |-> RowToMessage(fetched[j])]

\* SELECT created_at, updated_at FROM conversation WHERE id = ?  (fetchone: <<>> is None)
SelectConversation(convs, id) ==
    IF id \in DOMAIN convs THEN <<convs[id].created_at, convs[id].updated_at>> ELSE <<>>

\* ---------------------------------------------------------------------
\* connections and transactions (sqlite3, one connection per handler)
\* ---------------------------------------------------------------------
NoTxn == [open |-> FALSE, conversation |-> <<>>, message |-> <<>>]

\* what the statements of connection p read: its own uncommitted tables, else the committed ones
Tables(p) ==
    IF txn[p].open THEN [conversation |-> txn[p].conversation, message |-> txn[p].message]
    ELSE [conversation |-> conversation, message |-> message]

\* a writing statement waits while another connection holds the write lock
CanWrite(p) == \A q \in Procs \ {p} : ~txn[q].open

\* the committed conversation as one consistent read would return it
View(convs, rows, id) ==
    IF id \in DOMAIN convs
    THEN ConversationHistory(id, convs[id].created_at, convs[id].updated_at, LoadMessages(rows, id))
    ELSE NoConversation

\* ---------------------------------------------------------------------
\* handlers
\* ---------------------------------------------------------------------
\* no request body (the handlers other than send_new_message read none)
NoData ==
    [is_json |-> FALSE, has_message |-> FALSE, message |-> None,
     editor_code |-> None, stdout |-> None, stderr |-> None]

\* history: the conversation the handler's previous request read, when that was a get
NoRead == [id |-> 0, result |-> NoConversation]

IdleProc ==
    [pc |-> "idle", kind |-> "none", conversation_id |-> 0, new_messages |-> <<>>,
     stage |-> "none", next_sequence |-> 0, i |-> 0, conv_row |-> <<>>,
     result |-> NoConversation, status |-> "none", error |-> "", serial |-> FALSE,
     prev_messages |-> <<>>, bridge_calls |-> 0, reserve |-> 0,
     before |-> [conversation |-> <<>>, message |-> <<>>], after_user |-> <<>>, seen |-> {},
     data |-> NoData, started |-> 0, ids |-> <<>>, last_read |-> NoRead,
     keep |-> FALSE, conn |-> "none", bound |-> FALSE, closes |-> 0,
     raised |-> "", propagated |-> ""]

RECURSIVE SumReserve(_)
SumReserve(S) ==
    IF S = {} THEN 0
    ELSE LET q == CHOOSE q \in S : TRUE IN proc[q].reserve + SumReserve(S \ {q})

Room(serial, n) ==
    Len(message) + SumReserve(Procs) + n <= (IF serial THEN MaxRows ELSE MaxRows + 1)

\* conversations created while handlers run concurrently: the shared one and one more
ConcConv == Cardinality({1}) + 1

Creating == {q \in Procs : proc[q].pc \in {"c_insert", "c_commit"}}

Others(p) == Procs \ {p}

MayStart(p, serial) ==
    /\ proc[p].pc = "idle"
    /\ serial => p \in SerialProcs

Begin(p, serial, kind, id, batch, stage, pc) ==
    [IdleProc EXCEPT !.pc = pc, !.kind = kind, !.conversation_id = id, !.new_messages = batch,
                     !.stage = stage,
                     !.serial = serial,
                     !.before = IF serial THEN [conversation |-> conversation, message |-> message]
                                ELSE IdleProc.before,
                     !.seen = IF pc = "g_conv" THEN {View(conversation, message, id)} ELSE {},
                     !.started = IF serial /\ pc = "a_select" THEN clock ELSE 0]

\* the exceptions the endpoints catch, and Flask's answer to those they do not
HttpStatus(kind, exc) ==
    CASE kind = "get" /\ exc = "ValueError" -> "404"
      [] kind = "send" /\ exc = "ValueError" -> "404"
      [] kind = "send" /\ exc = "sqlite3.Error" -> "500"
      [] kind = "add" -> exc
      [] OTHER -> "500"

HttpError(kind, exc) ==
    CASE kind \in {"get", "send"} /\ exc = "ValueError" -> "not found"
      [] kind = "send" /\ exc = "sqlite3.Error" -> "sorry"
      [] OTHER -> exc

\* the call returns or raises.  In a handler this leaves the
\* `with app.conversation_repository()` block: the answer is fixed and the connection
\* closed, which rolls an open transaction back.  A caller that keeps its repository
\* (proc[p].keep) keeps the connection, and with it whatever transaction is open.
Respond(p, status, error, result) ==
    /\ proc' = [proc EXCEPT ![p].pc = "returned", ![p].status = status, ![p].error = error,
                            ![p].result = result, ![p].reserve = 0]
    /\ txn' = IF proc[p].keep THEN txn ELSE [txn EXCEPT ![p] = NoTxn]

\* an exception leaves the repository call: a handler turns it into its answer, any other
\* caller receives the exception itself
Raise(p, exc) ==
    IF proc[p].keep THEN Respond(p, exc, exc, NoConversation)
    ELSE Respond(p, HttpStatus(proc[p].kind, exc), HttpError(proc[p].kind, exc), NoConversation)

\* POST /conversations
StartCreate(p, serial) ==
    /\ MayStart(p, serial)
    /\ Len(conversation) + Cardinality(Creating) < (IF serial THEN MaxConv ELSE ConcConv)
    /\ proc' = [proc EXCEPT ![p] = Begin(p, serial, "create", 0, <<>>, "none", "c_insert")]
    /\ UNCHANGED <<conversation, message, txn, clock, calls, built, created, user, op, cli>>

\* INSERT INTO conversation DEFAULT VALUES; lastrowid
CreateInsert(p) ==
    /\ proc[p].pc = "c_insert"
    /\ CanWrite(p)
    /\ txn' = [txn EXCEPT ![p] =
                 [open |-> TRUE,
                  conversation |-> Append(Tables(p).conversation,
                                          [created_at |-> clock, updated_at |-> clock]),
                  message |-> Tables(p).message]]
    /\ proc' = [proc EXCEPT ![p].pc = "c_commit",
                            ![p].conversation_id = Len(Tables(p).conversation) + 1]
    /\ UNCHANGED <<conversation, message, clock, calls, built, created, user, op, cli>>

\* variant: SELECT DISTINCT conversation_id FROM message
ListIdsFromMessages(p, serial) ==
    /\ MayStart(p, serial)
    /\ proc' = [proc EXCEPT ![p] =
                 [Begin(p, serial, "list", 0, <<>>, "none", "returned")
                     EXCEPT !.status = "200",
                            !.ids = SelectSeq([id \in 1..MaxConv |-> id],
                                              LAMBDA id : SeqNumbers(message, id) # {})]]
    /\ UNCHANGED <<conversation, message, txn, clock, calls, built, created, user, op, cli>>

\* GET /conversations: get_all_conversation_ids, SELECT id FROM conversation; fetchall
ListIds(p, serial) ==
    /\ MayStart(p, serial)
    /\ proc' = [proc EXCEPT ![p] =
                 [Begin(p, serial, "list", 0, <<>>, "none", "returned")
                     EXCEPT !.status = "200", !.ids = [j \in DOMAIN conversation |-> j]]]
    /\ UNCHANGED <<conversation, message, txn, clock, calls, built, created, user, op, cli>>

\* GET /conversations/<id>
StartGet(p, serial, id) ==
    /\ MayStart(p, serial)
    /\ proc' = [proc EXCEPT ![p] =
                 [Begin(p, serial, "get", id, <<>>, "none", "g_conv")
                     EXCEPT !.last_read = IF proc[p].last_read.id = id THEN proc[p].last_read
                                          ELSE NoRead]]
    /\ UNCHANGED <<conversation, message, txn, clock, calls, built, created, user, op, cli>>

\* a direct call of add_messages_to_conversation(conversation_id, new_messages)
StartAdd(p, serial, id, batch) ==
    /\ MayStart(p, serial)
    /\ Room(serial, Len(batch))
    /\ proc' = [proc EXCEPT ![p] =
                  [Begin(p, serial, "add", id, batch, "none", "a_select") EXCEPT !.reserve = Len(batch)]]
    /\ UNCHANGED <<conversation, message, txn, clock, calls, built, created, user, op, cli>>

\* SELECT COALESCE(MAX(sequence_number), -1) + 1 ...; fetchone
AddSelectMax(p) ==
    /\ proc[p].pc = "a_select"
    /\ proc' = [proc EXCEPT
                  ![p].next_sequence = NextSequence(Tables(p).message, proc[p].conversation_id),
                  ![p].i = 0,
                  ![p].pc = IF proc[p].new_messages = <<>> THEN "a_update" ELSE "a_insert"]
    /\ UNCHANGED <<conversation, message, txn, clock, calls, built, created, user, op, cli>>

\* variant: INSERT OR IGNORE INTO message
AddInsertOrIgnore(p) ==
    /\ proc[p].pc = "a_insert"
    /\ CanWrite(p)
    /\ LET t == Tables(p)
           row == MessageRow(proc[p].conversation_id, proc[p].next_sequence + proc[p].i,
                             proc[p].new_messages[proc[p].i + 1])
       IN /\ txn' = [txn EXCEPT ![p] =
                      [open |-> TRUE, conversation |-> t.conversation,
                       message |-> IF UniqueKeyViolated(t.message, row) THEN t.message
                                   ELSE Append(t.message, row)]]
          /\ proc' = [proc EXCEPT ![p].i = @ + 1,
                         ![p].pc = IF proc[p].i + 1 = Len(proc[p].new_messages)
                                   THEN "a_update" ELSE "a_insert"]
    /\ UNCHANGED <<conversation, message, clock, calls, built, created, user, op, cli>>

\* variant: the conversation's rows are rewritten, as when the whole list was saved
AddInsertReplacing(p) ==
    /\ proc[p].pc = "a_insert"
    /\ CanWrite(p)
    /\ LET t == Tables(p)
           row == MessageRow(proc[p].conversation_id, proc[p].next_sequence + proc[p].i,
                             proc[p].new_messages[proc[p].i + 1])
           kept == IF proc[p].i = 0
                   THEN SelectSeq(t.message, LAMBDA r : r.conversation_id # row.conversation_id)
                   ELSE t.message
       IN /\ txn' = [txn EXCEPT ![p] = [open |-> TRUE, conversation |-> t.conversation,
                                        message |-> Append(kept, row)]]
          /\ proc' = [proc EXCEPT ![p].i = @ + 1,
                         ![p].pc = IF proc[p].i + 1 = Len(proc[p].new_messages)
                                   THEN "a_update" ELSE "a_insert"]
    /\ UNCHANGED <<conversation, message, clock, calls, built, created, user, op, cli>>

\* one turn of `for i, message in enumerate(new_messages, start=next_sequence)`: INSERT INTO message
AddInsert(p) ==
    /\ proc[p].pc = "a_insert"
    /\ CanWrite(p)
    /\ LET t == Tables(p)
           row == MessageRow(proc[p].conversation_id, proc[p].next_sequence + proc[p].i,
                             proc[p].new_messages[proc[p].i + 1])
       IN IF UniqueKeyViolated(t.message, row)
          THEN Raise(p, "sqlite3.Error")
          ELSE /\ txn' = [txn EXCEPT ![p] = [open |-> TRUE, conversation |-> t.conversation,
                                             message |-> Append(t.message, row)]]
               /\ proc' = [proc EXCEPT ![p].i = @ + 1,
                              ![p].pc = IF proc[p].i + 1 = Len(proc[p].new_messages)
                                        THEN "a_update" ELSE "a_insert"]
    /\ UNCHANGED <<conversation, message, clock, calls, built, created, user, op, cli>>

\* variant: the UPDATE has no WHERE clause
AddUpdateAll(p) ==
    /\ proc[p].pc = "a_update"
    /\ CanWrite(p)
    /\ LET t == Tables(p)
       IN txn' = [txn EXCEPT ![p] =
                    [open |-> TRUE,
                     conversation |-> [id \in DOMAIN t.conversation |->
                                          [t.conversation[id] EXCEPT !.updated_at = clock]],
                     message |-> t.message]]
    /\ proc' = [proc EXCEPT ![p].pc = "a_commit"]
    /\ UNCHANGED <<conversation, message, clock, calls, built, created, user, op, cli>>

\* variant: the UPDATE statement is left out
AddUpdateSkipped(p) ==
    /\ proc[p].pc = "a_update"
    /\ CanWrite(p)
    /\ txn' = [txn EXCEPT ![p] = [open |-> TRUE, conversation |-> Tables(p).conversation,
                                  message |-> Tables(p).message]]
    /\ proc' = [proc EXCEPT ![p].pc = "a_commit"]
    /\ UNCHANGED <<conversation, message, clock, calls, built, created, user, op, cli>>

\* UPDATE conversation SET updated_at = CURRENT_TIMESTAMP WHERE id = ?
AddUpdate(p) ==
    /\ proc[p].pc = "a_update"
    /\ CanWrite(p)
    /\ LET t == Tables(p)
           id == proc[p].conversation_id
       IN txn' = [txn EXCEPT ![p] =
                    [open |-> TRUE,
                     conversation |-> IF id \in DOMAIN t.conversation
                                      THEN [t.conversation EXCEPT ![id].updated_at = clock]
                                      ELSE t.conversation,
                     message |-> t.message]]
    /\ proc' = [proc EXCEPT ![p].pc = "a_commit"]
    /\ UNCHANGED <<conversation, message, clock, calls, built, created, user, op, cli>>

\* self.conn.commit(), then the call of get_conversation begins
Commit(p) ==
    /\ proc[p].pc \in {"c_commit", "a_commit"}
    /\ conversation' = Tables(p).conversation
    /\ message' = Tables(p).message
    /\ txn' = [txn EXCEPT ![p] = NoTxn]
    /\ calls' = IF proc[p].pc = "a_commit"
                THEN [calls EXCEPT ![proc[p].conversation_id] = @ \o proc[p].new_messages]
                ELSE calls
    /\ proc' = [q \in Procs |->
                  IF q = p
                  THEN [proc[p] EXCEPT !.pc = "g_conv",
                            !.reserve = @ - Len(proc[p].new_messages)]
                  ELSE IF proc[q].kind = "get" /\ proc[q].pc \in {"g_conv", "g_msgs"}
                       THEN [proc[q] EXCEPT !.seen = @ \cup
                                {View(conversation', message', proc[q].conversation_id)}]
                       ELSE proc[q]]
    /\ UNCHANGED <<clock, built, created, user, op, cli>>

\* variant: no check that the conversation exists
GetSelectConversationUnchecked(p) ==
    /\ proc[p].pc = "g_conv"
    /\ LET conv_row == SelectConversation(Tables(p).conversation, proc[p].conversation_id)
       IN proc' = [proc EXCEPT ![p].conv_row = IF conv_row = <<>> THEN <<0, 0>> ELSE conv_row,
                               ![p].pc = "g_msgs"]
    /\ UNCHANGED <<conversation, message, txn, clock, calls, built, created, user, op, cli>>

\* variant: the read stamps the conversation row it fetches
GetSelectConversationTouching(p) ==
    /\ proc[p].pc = "g_conv"
    /\ LET id == proc[p].conversation_id
           conv_row == SelectConversation(Tables(p).conversation, id)
       IN IF conv_row = <<>>
          THEN Raise(p, "ValueError") /\ UNCHANGED conversation
          ELSE /\ proc' = [proc EXCEPT ![p].conv_row = <<conv_row[1], clock>>, ![p].pc = "g_msgs"]
               /\ conversation' = IF id \in DOMAIN conversation
                                  THEN [conversation EXCEPT ![id].updated_at = clock]
                                  ELSE conversation
               /\ UNCHANGED txn
    /\ UNCHANGED <<message, clock, calls, built, created, user, op, cli>>

\* get_conversation: SELECT created_at, updated_at FROM conversation WHERE id = ?; fetchone
GetSelectConversation(p) ==
    /\ proc[p].pc = "g_conv"
    /\ LET conv_row == SelectConversation(Tables(p).conversation, proc[p].conversation_id)
       IN IF conv_row = <<>>
          THEN Raise(p, "ValueError")
          ELSE /\ proc' = [proc EXCEPT ![p].conv_row = conv_row, ![p].pc = "g_msgs"]
               /\ UNCHANGED txn
    /\ UNCHANGED <<conversation, message, clock, calls, built, created, user, op, cli>>

\* get_conversation: SELECT ... FROM message ... ORDER BY sequence_number; fetchall; return,
\* and the caller's next statement
GetSelectMessages(p) ==
    /\ proc[p].pc = "g_msgs"
    /\ LET result == ConversationHistory(proc[p].conversation_id, proc[p].conv_row[1],
                        proc[p].conv_row[2],
                        LoadMessages(Tables(p).message, proc[p].conversation_id))
       IN IF proc[p].kind = "send" /\ proc[p].stage = "user"
          THEN /\ proc' = [proc EXCEPT ![p].pc = "bridge", ![p].result = result,
                              ![p].prev_messages = result.messages,
                              ![p].after_user = IF proc[p].serial THEN message ELSE <<>>]
               /\ UNCHANGED txn
          ELSE Respond(p, CASE proc[p].kind = "create" -> "201"
                            [] proc[p].kind = "add" -> "ok"
                            [] OTHER -> "200", "", result)
    /\ created' = IF proc[p].kind = "create" THEN Append(created, proc[p].conversation_id)
                  ELSE created
    /\ UNCHANGED <<conversation, message, clock, calls, built, user, op, cli>>

\* the response is delivered; the handler is free for the next request
Finish(p) ==
    /\ proc[p].pc = "returned"
    /\ proc' = [proc EXCEPT ![p] =
                 [IdleProc EXCEPT !.last_read =
                     IF proc[p].serial /\ proc[p].kind = "get" /\ proc[p].status = "200"
                     THEN [id |-> proc[p].conversation_id, result |-> proc[p].result]
                     ELSE NoRead]]
    /\ UNCHANGED <<conversation, message, txn, clock, calls, built, created, user, op, cli>>

\* CURRENT_TIMESTAMP advances; only the order of the stored times matters, so time moves on
\* once the present one has been written somewhere
TimeUsed(convs) ==
    \E id \in DOMAIN convs : convs[id].created_at = clock \/ convs[id].updated_at = clock

Tick ==
    /\ clock < MaxClock
    /\ TimeUsed(conversation) \/ \E p \in Procs : TimeUsed(txn[p].conversation)
    /\ clock' = clock + 1
    /\ UNCHANGED <<conversation, message, txn, proc, calls, built, created, user, op, cli>>

\* ---------------------------------------------------------------------
\* POST /conversations/<id>/send_message
\* ---------------------------------------------------------------------
\* s.strip() == ""
Blank(s) == s \in {"", " "}
\* the value has a strip method
HasStrip(v) == v \notin {None, JsonArray}

\* variant: without the check of lines 94-96
ValidateSendAnyOutput(data) ==
    IF ~data.is_json THEN [status |-> "400", error |-> "Request must be JSON"]
    ELSE IF ~data.has_message THEN [status |-> "400", error |-> "Missing 'message' field"]
    ELSE IF (data.stdout = None) # (data.stderr = None)
    THEN [status |-> "400", error |-> "Must provide both stdout and stderr if code has been run, or neither if code has not been run"]
    ELSE IF ~Blank(data.message) THEN [status |-> "ok", error |-> ""]
    ELSE [status |-> "400", error |-> "Must provide at least one of: message, editor_code, stdout, stderr"]

\* lines 78-104 of send_new_message: the answer that ends the request early, or "ok"
ValidateSend(data) ==
    IF ~data.is_json THEN [status |-> "400", error |-> "Request must be JSON"]
    ELSE IF ~data.has_message THEN [status |-> "400", error |-> "Missing 'message' field"]
    ELSE IF data.editor_code = None /\ (data.stdout # None \/ data.stderr # None)
    THEN [status |-> "400", error |-> "Cannot provide stdout or stderr if editor_code is null"]
    ELSE IF (data.stdout = None) # (data.stderr = None)
    THEN [status |-> "400", error |-> "Must provide both stdout and stderr if code has been run, or neither if code has not been run"]
    \* `not user_query.strip() and not editor_code.strip() and not stdout.strip() and not stderr.strip()`
    ELSE IF ~Blank(data.message) THEN [status |-> "ok", error |-> ""]
    ELSE IF ~HasStrip(data.editor_code) THEN [status |-> "500", error |-> "AttributeError"]
    ELSE IF ~Blank(data.editor_code) THEN [status |-> "ok", error |-> ""]
    ELSE IF ~HasStrip(data.stdout) THEN [status |-> "500", error |-> "AttributeError"]
    ELSE IF ~Blank(data.stdout) THEN [status |-> "ok", error |-> ""]
    ELSE IF ~HasStrip(data.stderr) THEN [status |-> "500", error |-> "AttributeError"]
    ELSE IF ~Blank(data.stderr) THEN [status |-> "ok", error |-> ""]
    ELSE [status |-> "400", error |-> "Must provide at least one of: message, editor_code, stdout, stderr"]

\* PlaydoMessage.user_message(...) of line 119 raises pydantic's ValidationError
UserMessageRaises(data) ==
    ~PlaydoMessageValid([role |-> "user", has_content |-> TRUE,
                         content |-> <<PlaydoContent(data.message)>>,
                         editor_code |-> data.editor_code, stdout |-> data.stdout,
                         stderr |-> data.stderr])

\* variant: the user message is built from the text alone
StartSendTextOnly(p, serial, id, data) ==
    /\ MayStart(p, serial)
    /\ ValidateSend(data).status = "ok" => Room(serial, 1)
    /\ LET v == ValidateSend(data)
       IN IF v.status = "ok"
          THEN /\ proc' = [proc EXCEPT ![p] =
                            [Begin(p, serial, "send", id,
                                   <<user_message(data.message, None, None, None)>>,
                                   "user", "a_select") EXCEPT !.reserve = 1, !.data = data]]
               /\ UNCHANGED txn
          ELSE /\ proc' = [proc EXCEPT ![p] =
                            [Begin(p, serial, "send", id, <<>>, "none", "returned")
                                EXCEPT !.status = v.status, !.error = v.error, !.data = data]]
               /\ UNCHANGED txn
    /\ UNCHANGED <<conversation, message, clock, calls, built, created, user, op, cli>>

\* variant: the user message is handed to the bridge without being appended first
StartSendUnsaved(p, serial, id, data) ==
    /\ MayStart(p, serial)
    /\ Room(serial, 1)
    /\ proc' = [proc EXCEPT ![p] =
                 [Begin(p, serial, "send", id,
                        <<user_message(data.message, data.editor_code, data.stdout, data.stderr)>>,
                        "user", "bridge") EXCEPT !.reserve = 1, !.data = data]]
    /\ UNCHANGED <<conversation, message, txn, clock, calls, built, created, user, op, cli>>

\* lines 57-120 of send_new_message: validation, then the user message is built and appended.
\* ValidationError is a ValueError: the except clause of line 131 answers for it.
StartSend(p, serial, id, data) ==
    /\ MayStart(p, serial)
    /\ ValidateSend(data).status = "ok" => Room(serial, 1)
    /\ LET v == ValidateSend(data)
       IN IF v.status = "ok" /\ UserMessageRaises(data)
          THEN /\ proc' = [proc EXCEPT ![p] =
                            [Begin(p, serial, "send", id, <<>>, "none", "returned")
                                EXCEPT !.status = HttpStatus("send", "ValueError"),
                                       !.error = HttpError("send", "ValueError"),
                                       !.raised = "ValidationError", !.data = data]]
               /\ UNCHANGED txn
          ELSE IF v.status = "ok"
          THEN /\ proc' = [proc EXCEPT ![p] =
                            [Begin(p, serial, "send", id,
                                   <<user_message(data.message, data.editor_code, data.stdout, data.stderr)>>,
                                   "user", "a_select") EXCEPT !.reserve = 1, !.data = data]]
               /\ UNCHANGED txn
          ELSE /\ proc' = [proc EXCEPT ![p] =
                            [Begin(p, serial, "send", id, <<>>, "none", "returned")
                                EXCEPT !.status = v.status, !.error = v.error, !.data = data]]
               /\ UNCHANGED txn
    /\ UNCHANGED <<conversation, message, clock, calls, built, created, user, op, cli>>

\* PlaydoContent.from_anthropic_content / PlaydoMessage.from_anthropic_message
TextOnly(raw) == \A j \in DOMAIN raw.content : raw.content[j].type = "text"

from_anthropic_message(raw) ==
    PlaydoMessage(raw.role, [j \in DOMAIN raw.content |-> PlaydoContent(raw.content[j].text)],
                  None, None, None)

\* what the messages API answers
ApiResponses ==
    {[role |-> "assistant", content |-> <<[type |-> "text", text |-> "ok"]>>],
     [role |-> "assistant", content |-> <<[type |-> "tool_use", text |-> ""]>>]}

\* response_getter._get_next_assistant_resp returns; the handler goes on to line 127
BridgeReturn(p, raw) ==
    /\ proc[p].pc = "bridge"
    /\ IF TextOnly(raw)
       THEN /\ Room(proc[p].serial, 1)
            /\ proc' = [proc EXCEPT ![p].pc = "a_select", ![p].stage = "assistant",
                           ![p].new_messages = <<from_anthropic_message(raw)>>,
                           ![p].bridge_calls = @ + 1, ![p].reserve = 1,
                           ![p].started = IF proc[p].serial THEN clock ELSE 0]
            /\ UNCHANGED txn
       ELSE /\ proc' = [proc EXCEPT ![p].pc = "returned", ![p].status = "500",
                           ![p].error = "AssertionError", ![p].reserve = 0,
                           ![p].bridge_calls = @ + 1]
            /\ txn' = [txn EXCEPT ![p] = NoTxn]
    /\ UNCHANGED <<conversation, message, clock, calls, built, created, user, op, cli>>

\* variant: the call is tried a second time before the error is let through
BridgeRaiseRetrying(p) ==
    /\ proc[p].pc = "bridge"
    /\ IF proc[p].bridge_calls = 0
       THEN /\ proc' = [proc EXCEPT ![p].bridge_calls = @ + 1]
            /\ UNCHANGED txn
       ELSE /\ proc' = [proc EXCEPT ![p].pc = "returned", ![p].status = "500",
                           ![p].error = "anthropic.APIError", ![p].reserve = 0,
                           ![p].bridge_calls = @ + 1]
            /\ txn' = [txn EXCEPT ![p] = NoTxn]
    /\ UNCHANGED <<conversation, message, clock, calls, built, created, user, op, cli>>

\* the API call raises (anthropic.APIError): neither except clause of the handler matches
BridgeRaise(p) ==
    /\ proc[p].pc = "bridge"
    /\ proc' = [proc EXCEPT ![p].pc = "returned", ![p].status = "500",
                   ![p].error = "anthropic.APIError", ![p].reserve = 0,
                   ![p].bridge_calls = @ + 1]
    /\ txn' = [txn EXCEPT ![p] = NoTxn]
    /\ UNCHANGED <<conversation, message, clock, calls, built, created, user, op, cli>>

\* ---------------------------------------------------------------------
\* requests
\* ---------------------------------------------------------------------
Ids == 1..MaxConv
\* the conversation the concurrent requests compete for
SharedIds == {1}
RequestIds(serial) == IF serial THEN Ids ELSE SharedIds

Texts == {"", "x"}
OptTexts == {None} \cup Texts

BatchMessages(serial) ==
    IF serial
    THEN {user_message("hi", "", "", ""),
          PlaydoMessage("assistant", <<PlaydoContent("ok")>>, None, None, None)}
    ELSE {user_message("hi", None, None, None)}

Batches(serial) ==
    UNION {[1..n -> BatchMessages(serial)] : n \in (IF serial THEN 0 ELSE 1)..MaxBatch}

SendJson(message_text, editor_code, stdout, stderr) ==
    [is_json |-> TRUE, has_message |-> TRUE, message |-> message_text,
     editor_code |-> editor_code, stdout |-> stdout, stderr |-> stderr]

SendData(serial) ==
    IF serial
    THEN {SendJson("hi", "", "", ""), SendJson("hi", "x", None, None),
          SendJson("hi", None, "", None), SendJson("hi", None, "x", "x"),
          SendJson("hi", "x", "", None),
          SendJson("hi", "x", None, ""),
          SendJson("", "", "", ""), SendJson("", None, None, None),
          SendJson("", "", None, None), SendJson("hi", JsonArray, None, None),
          [SendJson("", None, None, None) EXCEPT !.has_message = FALSE],
          [SendJson("", None, None, None) EXCEPT !.is_json = FALSE, !.has_message = FALSE]}
    ELSE {SendJson("hi", None, None, None)}

\* ---------------------------------------------------------------------
\* users: validators.py, user_repository.py, svc/user_service.py, svc/auth_service.py,
\* endpoints/auth.py.  One operation at a time, each on a connection of its own.
\* ---------------------------------------------------------------------
MaxUsers == 2          \* rows of table user
MinPasswordLen == 12

\* an Optional value that is not a str: << >> is None, <<v>> is v
Absent == <<>>

\* a str of n characters c
Chars(n, c) == [j \in 1..n |-> c]

Letters == {"a", "Z"}
Digits == {"1"}

\* validators.py: not empty, at least 12 characters, a letter and a digit
validate_password_complexity(password) ==
    /\ password # <<>>
    /\ Len(password) >= MinPasswordLen
    /\ \E j \in DOMAIN password : password[j] \in Letters
    /\ \E j \in DOMAIN password : password[j] \in Digits

\* str.lower() and SQL LOWER()
Lower(s) == IF s = "A@x" THEN "a@x" ELSE s

\* PasswordHasher.hash(text): only verify(hash, text) with the same text succeeds
Argon2Hash(text) == [argon2 |-> text]

\* hash_password: secrets.token_hex(16) is the salt, the hash is of password + salt
hash_password(password, salt) == [hash |-> Argon2Hash(password \o salt), salt |-> salt]

\* verify_password: True, or False on VerifyMismatchError
verify_password(password, stored_hash, stored_salt) ==
    stored_hash = Argon2Hash(password \o stored_salt)

UserRow(id, username, email, pw, is_admin, created_at, updated_at) ==
    [id |-> id, username |-> username, email |-> email, password_hash |-> pw.hash,
     password_salt |-> pw.salt, is_admin |-> is_admin,
     created_at |-> created_at, updated_at |-> updated_at]

\* SELECT ... FROM user WHERE ...; fetchone: << >> is None
FetchOne(rows, matching) ==
    IF matching = {} THEN <<>>
    ELSE <<rows[CHOOSE j \in matching : \A k \in matching : j <= k]>>

get_user_by_id(rows, user_id) ==
    FetchOne(rows, {j \in DOMAIN rows : rows[j].id = user_id})

get_user_by_username(rows, username) ==
    FetchOne(rows, {j \in DOMAIN rows : rows[j].username = username})

get_user_by_email(rows, email) ==
    FetchOne(rows, {j \in DOMAIN rows : Lower(rows[j].email) = Lower(Lower(email))})

\* the row is kept apart when exclude_id is given (`AND id != ?`)
Excluded(r, exclude_id) == exclude_id # Absent /\ r.id = exclude_id[1]

\* _check_unique_constraints: the error message, or None
check_unique_constraints(rows, username, email, exclude_id) ==
    IF /\ username \notin {None, ""}
       /\ FetchOne(rows, {j \in DOMAIN rows : rows[j].username = username
                                                /\ ~Excluded(rows[j], exclude_id)}) # <<>>
    THEN "Username already exists"
    ELSE IF /\ email \notin {None, ""}
            /\ FetchOne(rows, {j \in DOMAIN rows : Lower(rows[j].email) = Lower(Lower(email))
                                                     /\ ~Excluded(rows[j], exclude_id)}) # <<>>
    THEN "Email already exists"
    ELSE None

\* the UNIQUE constraints of table user that the except clauses name: the column that
\* fails, or None
UniqueConstraintFailed(rows, username, email, exclude_id) ==
    IF \E j \in DOMAIN rows : rows[j].username = username /\ ~Excluded(rows[j], exclude_id)
    THEN "user.username"
    ELSE IF \E j \in DOMAIN rows : rows[j].email = email /\ ~Excluded(rows[j], exclude_id)
    THEN "user.email"
    ELSE None

\* `except sqlite3.IntegrityError`: the message returned
IntegrityMessage(failed) ==
    IF failed = "user.username" THEN "Username already exists" ELSE "Email already exists"

NextUserId(rows) ==
    IF rows = <<>> THEN 1 ELSE SetMax({rows[j].id : j \in DOMAIN rows}) + 1

\* what a repository method returns: (User, None) or (None, error_message), and the table
Returns(rows, found, error) == [rows |-> rows, user |-> found, error |-> error]

\* UserRepository.create_user
create_user(rows, username, email_given, pw, is_admin, now) ==
    LET email == Lower(email_given)
        error == check_unique_constraints(rows, username, email, Absent)
        failed == UniqueConstraintFailed(rows, username, email, Absent)
        row == UserRow(NextUserId(rows), username, email, pw, is_admin, now, now)
    IN IF error # None THEN Returns(rows, <<>>, error)
       ELSE IF failed # None THEN Returns(rows, <<>>, IntegrityMessage(failed))
       ELSE Returns(Append(rows, row), <<row>>, None)

\* the updates dict: each of username, email, is_admin, password is << >> (key absent or
\* value None) or <<value>>; password stands for the pair password_hash, password_salt
Updates(username, email, is_admin, password) ==
    [username |-> username, email |-> email, is_admin |-> is_admin, password |-> password]

NoUpdates == Updates(Absent, Absent, Absent, Absent)

\* UPDATE user SET ... WHERE id = ?
UpdateRow(r, updates, now) ==
    [r EXCEPT !.username = IF updates.username # Absent THEN updates.username[1] ELSE @,
              !.email = IF updates.email # Absent THEN Lower(updates.email[1]) ELSE @,
              !.is_admin = IF updates.is_admin # Absent THEN updates.is_admin[1] ELSE @,
              !.password_hash = IF updates.password # Absent THEN updates.password[1].hash ELSE @,
              !.password_salt = IF updates.password # Absent THEN updates.password[1].salt ELSE @,
              !.updated_at = now]

\* UserRepository.update_user
update_user(rows, user_id, updates, now) ==
    LET existing_user == get_user_by_id(rows, user_id)
        username_to_check == IF updates.username # Absent THEN updates.username[1] ELSE None
        email_to_check == IF updates.email # Absent THEN Lower(updates.email[1]) ELSE None
        error == IF username_to_check \notin {None, ""} \/ email_to_check \notin {None, ""}
                 THEN check_unique_constraints(rows, username_to_check, email_to_check,
                                               <<user_id>>)
                 ELSE None
        updated == [j \in DOMAIN rows |->
                       IF rows[j].id = user_id THEN UpdateRow(rows[j], updates, now)
                       ELSE rows[j]]
        after == get_user_by_id(updated, user_id)[1]
        failed == UniqueConstraintFailed(rows, after.username, after.email, <<user_id>>)
    IN IF existing_user = <<>> THEN Returns(rows, <<>>, "User not found")
       ELSE IF updates = NoUpdates THEN Returns(rows, existing_user, None)
       ELSE IF error # None THEN Returns(rows, <<>>, error)
       ELSE IF failed # None THEN Returns(rows, <<>>, IntegrityMessage(failed))
       ELSE Returns(updated, get_user_by_id(updated, user_id), None)

\* UserRepository.delete_user: (True, None) or (False, "User not found")
delete_user(rows, user_id) ==
    IF get_user_by_id(rows, user_id) = <<>> THEN Returns(rows, <<>>, "User not found")
    ELSE Returns(SelectSeq(rows, LAMBDA r : r.id # user_id), <<>>, None)

\* UserService.create_user: what is raised, how often the repository's create_user was
\* called, and the table
Raised(rows, exc, writes) == [rows |-> rows, raised |-> exc, writes |-> writes]

\* validate_unique_email / validate_unique_username: is UserAlreadyExistsError raised
EmailTaken(rows, existing_user_id, email) ==
    LET user_with_email == get_user_by_email(rows, email)
    IN /\ user_with_email # <<>>
       /\ existing_user_id = Absent \/ user_with_email[1].id # existing_user_id[1]

UsernameTaken(rows, existing_user_id, username) ==
    LET user_with_username == get_user_by_username(rows, username)
    IN /\ user_with_username # <<>>
       /\ existing_user_id = Absent \/ user_with_username[1].id # existing_user_id[1]

\* variant: the uniqueness of the username is left to the repository
svc_create_user_unchecked(rows, username, email, is_admin, password, salt, now) ==
    IF ~validate_password_complexity(password) THEN Raised(rows, "ValueError", 0)
    ELSE IF EmailTaken(rows, Absent, email) THEN Raised(rows, "UserAlreadyExistsError", 0)
    ELSE LET r == create_user(rows, username, email, hash_password(password, salt),
                              is_admin, now)
         IN Raised(r.rows, IF r.error = None THEN "" ELSE "UserAlreadyExistsError", 1)

svc_create_user(rows, username, email, is_admin, password, salt, now) ==
    IF ~validate_password_complexity(password) THEN Raised(rows, "ValueError", 0)
    ELSE IF EmailTaken(rows, Absent, email) THEN Raised(rows, "UserAlreadyExistsError", 0)
    ELSE IF UsernameTaken(rows, Absent, username) THEN Raised(rows, "UserAlreadyExistsError", 0)
    ELSE LET r == create_user(rows, username, email, hash_password(password, salt),
                              is_admin, now)
         IN Raised(r.rows, IF r.error = None THEN "" ELSE "UserAlreadyExistsError", 1)

\* UserService.update_user(existing_user, new_username, new_email, new_is_admin, new_password)
svc_update_user(rows, existing_user, new, salt, now) ==
    LET user_id == <<existing_user.id>>
        pw == IF new.password # Absent THEN hash_password(new.password[1], salt)
              ELSE [hash |-> existing_user.password_hash, salt |-> existing_user.password_salt]
        username == IF new.username # Absent THEN new.username[1] ELSE existing_user.username
        email == IF new.email # Absent THEN new.email[1] ELSE existing_user.email
        is_admin == IF new.is_admin # Absent THEN new.is_admin[1] ELSE existing_user.is_admin
        r == update_user(rows, existing_user.id,
                         Updates(<<username>>, <<email>>, <<is_admin>>, <<pw>>), now)
    IN IF new.password # Absent /\ ~validate_password_complexity(new.password[1])
       THEN Raised(rows, "ValueError", 0)
       ELSE IF new.username # Absent /\ UsernameTaken(rows, user_id, username)
       THEN Raised(rows, "UserAlreadyExistsError", 0)
       ELSE IF new.email # Absent /\ EmailTaken(rows, user_id, email)
       THEN Raised(rows, "UserAlreadyExistsError", 0)
       ELSE Raised(r.rows, IF r.error = None THEN "" ELSE "UserAlreadyExistsError", 1)

\* AuthService.login_user / UserService.login_user: the user, or None
login_user(rows, username, password) ==
    LET found == get_user_by_username(rows, username)
    IN IF found = <<>> THEN <<>>
       ELSE IF ~verify_password(password, found[1].password_hash, found[1].password_salt)
       THEN <<>>
       ELSE found

Answer(status, error, token) == [status |-> status, error |-> error, token |-> token]

\* variant: the two failures are told apart
login_telling(rows, data) ==
    LET found == get_user_by_username(rows, data.username)
    IN IF ~data.is_json THEN Answer("400", "Missing JSON in request", <<>>)
       ELSE IF data.username \in {None, ""} \/ data.password = <<>>
       THEN Answer("400", "Missing username or password", <<>>)
       ELSE IF found = <<>> THEN Answer("404", "User not found", <<>>)
       ELSE IF ~verify_password(data.password, found[1].password_hash, found[1].password_salt)
       THEN Answer("401", "Invalid credentials", <<>>)
       ELSE Answer("200", "", <<found[1].id>>)

\* POST /login: the status, the error and the identity the access token is made for
login(rows, data) ==
    LET found == get_user_by_username(rows, data.username)
    IN IF ~data.is_json THEN Answer("400", "Missing JSON in request", <<>>)
       ELSE IF data.username \in {None, ""} \/ data.password = <<>>
       THEN Answer("400", "Missing username or password", <<>>)
       ELSE IF found = <<>> THEN Answer("401", "Invalid credentials", <<>>)
       ELSE IF ~verify_password(data.password, found[1].password_hash, found[1].password_salt)
       THEN Answer("401", "Invalid credentials", <<>>)
       ELSE Answer("200", "", <<found[1].id>>)

NoOp ==
    [kind |-> "none", id |-> 0, username |-> None, email |-> None, password |-> <<>>,
     is_json |-> TRUE, updates |-> NoUpdates, before |-> <<>>, found |-> <<>>,
     error |-> None, raised |-> "", writes |-> 0, answer |-> Answer("", "", <<>>)]

Usernames == {"u1", "u2", ""}
Emails == {"a@x", "A@x", "b@x"}
Salts == {<<"5f">>}
Strong == Chars(MinPasswordLen - 1, "a") \o <<"1">>
Strong2 == Chars(MinPasswordLen - 1, "Z") \o <<"1">>
WeakPasswords == {<<>>, Chars(MinPasswordLen, "a"), Chars(MinPasswordLen, "1"),
                  Chars(MinPasswordLen - 2, "a") \o <<"1">>}
UserIds == 1..(MaxUsers + 1)

UserUpdates ==
    {Updates(username, email, is_admin, password) :
        username \in {Absent} \cup {<<u>> : u \in Usernames},
        email \in {Absent} \cup {<<e>> : e \in Emails},
        is_admin \in {Absent, <<TRUE>>},
        password \in {Absent, <<hash_password(Strong2, <<"5f">>)>>}}

ServiceUpdates ==
    {Updates(username, email, Absent, password) :
        username \in {Absent} \cup {<<u>> : u \in Usernames},
        email \in {Absent} \cup {<<e>> : e \in Emails},
        password \in {Absent, <<Strong2>>, <<Chars(MinPasswordLen, "a")>>,
                      <<Chars(MinPasswordLen - 2, "a") \o <<"1">>>>}}

UserOp(kind, id, username, email, password) ==
    [NoOp EXCEPT !.kind = kind, !.id = id, !.username = username, !.email = email,
                 !.password = password, !.before = user]

\* repo.create_user(username, email, password_hash, password_salt)
RepoCreateUser(username, email, salt) ==
    LET r == create_user(user, username, email, hash_password(Strong, salt), FALSE, clock)
    IN /\ op.kind = "none"
       /\ Len(r.rows) <= MaxUsers
       /\ user' = r.rows
       /\ op' = [UserOp("create_user", 0, username, email, Strong)
                    EXCEPT !.found = r.user, !.error = r.error]
       /\ UNCHANGED <<conversation, message, txn, clock, proc, calls, built, created, cli>>

\* repo.update_user(user_id, updates)
RepoUpdateUser(user_id, updates) ==
    LET r == update_user(user, user_id, updates, clock)
    IN /\ op.kind = "none"
       /\ user' = r.rows
       /\ op' = [UserOp("update_user", user_id, None, None, <<>>)
                    EXCEPT !.updates = updates, !.found = r.user, !.error = r.error]
       /\ UNCHANGED <<conversation, message, txn, clock, proc, calls, built, created, cli>>

\* repo.delete_user(user_id)
RepoDeleteUser(user_id) ==
    LET r == delete_user(user, user_id)
    IN /\ op.kind = "none"
       /\ user' = r.rows
       /\ op' = [UserOp("delete_user", user_id, None, None, <<>>) EXCEPT !.error = r.error]
       /\ UNCHANGED <<conversation, message, txn, clock, proc, calls, built, created, cli>>

\* user_service.create_user(username, email, is_admin, password)
SvcCreateUser(username, email, password, salt) ==
    LET r == svc_create_user(user, username, email, FALSE, password, salt, clock)
    IN /\ op.kind = "none"
       /\ Len(r.rows) <= MaxUsers
       /\ user' = r.rows
       /\ op' = [UserOp("svc_create_user", 0, username, email, password)
                    EXCEPT !.raised = r.raised, !.writes = r.writes]
       /\ UNCHANGED <<conversation, message, txn, clock, proc, calls, built, created, cli>>

\* user_service.update_user(existing_user, ...), existing_user read from the table before
SvcUpdateUser(j, new, salt) ==
    /\ op.kind = "none"
    /\ j \in DOMAIN user
    /\ LET r == svc_update_user(user, user[j], new, salt, clock)
       IN /\ user' = r.rows
          /\ op' = [UserOp("svc_update_user", user[j].id, None, None, <<>>)
                       EXCEPT !.updates = new, !.raised = r.raised, !.writes = r.writes]
    /\ UNCHANGED <<conversation, message, txn, clock, proc, calls, built, created, cli>>

LoginData == 
    {[is_json |-> is_json, username |-> username, password |-> password] :
        is_json \in BOOLEAN, username \in {None, "", "u1", "u2"},
        password \in {<<>>, Strong, Strong2}}

\* POST /login
Login(data) ==
    /\ op.kind = "none"
    /\ op' = [UserOp("login", 0, data.username, None, data.password)
                 EXCEPT !.is_json = data.is_json, !.answer = login(user, data)]
    /\ UNCHANGED <<conversation, message, txn, clock, proc, calls, built, created, user, cli>>

\* auth_service.login_user(username, password)
LoginUser(username, password) ==
    /\ op.kind = "none"
    /\ op' = [UserOp("login_user", 0, username, None, password)
                 EXCEPT !.found = login_user(user, username, password)]
    /\ UNCHANGED <<conversation, message, txn, clock, proc, calls, built, created, user, cli>>

\* the caller has its result; the next operation may start
UserOpReturns ==
    /\ op.kind # "none"
    /\ op' = NoOp
    /\ UNCHANGED <<conversation, message, txn, clock, proc, calls, built, created, user, cli>>

NoWire == [role |-> "", xml |-> FALSE, content |-> <<>>]

\* the arguments of one PlaydoMessage(...) call, before it is made
Building(role, has_content, content, editor_code, stdout, stderr) ==
    [role |-> role, has_content |-> has_content, content |-> content,
     editor_code |-> editor_code, stdout |-> stdout, stderr |-> stderr,
     outcome |-> "none", wired |-> FALSE, wire |-> NoWire, from_raw |-> FALSE]

NoBuilt == [Building("", FALSE, <<>>, None, None, None) EXCEPT !.outcome = "unused"]

\* the chat program is not running.  inputs .. failed count what the program did since it
\* started; bridge_args holds the argument of each bridge call, in order
NoCli ==
    [pc |-> "off", conversation |-> NoConversation, loaded |-> 0, last_input |-> "",
     inputs |-> 0, user_appends |-> 0, bridge_calls |-> 0, responses |-> 0,
     assistant_appends |-> 0, failed |-> 0, bridge_args |-> <<>>,
     response |-> PlaydoMessage("", <<>>, None, None, None), raised |-> ""]

Init ==
    /\ conversation = <<>>
    /\ message = <<>>
    /\ txn = [p \in Procs |-> NoTxn]
    /\ clock = 0
    /\ proc = [p \in Procs |-> IdleProc]
    /\ calls = [id \in Ids |-> <<>>]
    /\ built = NoBuilt
    /\ created = <<>>
    /\ user = <<>>
    /\ op = NoOp
    /\ cli = NoCli

Start(p, serial) ==
    \/ StartCreate(p, serial)
    \/ ListIds(p, serial)
    \/ \E id \in RequestIds(serial) : StartGet(p, serial, id)
    \/ \E id \in RequestIds(serial), batch \in Batches(serial) : StartAdd(p, serial, id, batch)
    \/ \E id \in RequestIds(serial), data \in SendData(serial) : StartSend(p, serial, id, data)

Step(p) ==
    \/ CreateInsert(p)
    \/ AddSelectMax(p)
    \/ AddInsert(p)
    \/ AddUpdate(p)
    \/ Commit(p)
    \/ GetSelectConversation(p)
    \/ GetSelectMessages(p)
    \/ \E raw \in ApiResponses : BridgeReturn(p, raw)
    \/ BridgeRaise(p)
    \/ Finish(p)

\* requests served one at a time
Next == \/ \E p \in Procs : Start(p, TRUE) \/ Step(p)
        \/ Tick

Spec == Init /\ [][Next]_vars

\* requests served by concurrent handlers
NextConc == \/ \E p \in Procs : Start(p, FALSE) \/ Step(p)
            \/ Tick

SpecConc == Init /\ [][NextConc]_vars

\* ---------------------------------------------------------------------
\* models.py on its own: a PlaydoMessage is built, then turned into its MessageParam
\* ---------------------------------------------------------------------
Roles == {"user", "assistant", "system"}

Contents ==
    {<<>>, <<PlaydoContent("hi")>>, <<PlaydoContent(""), PlaydoContent("")>>,
     <<[type |-> "image", text |-> ""]>>}

BuildingArgs ==
    {Building(role, TRUE, content, editor_code, stdout, stderr) :
        role \in Roles, content \in Contents,
        editor_code \in OptTexts, stdout \in OptTexts, stderr \in OptTexts}
    \cup {Building(role, FALSE, <<>>, None, None, None) : role \in Roles}

\* the anthropic Message objects handed to from_anthropic_message: role is the Literal
\* "assistant", content a list of content blocks (text, tool_use, ...), possibly empty
RawContents ==
    {<<>>, <<[type |-> "text", text |-> "ok"]>>, <<[type |-> "text", text |-> ""]>>,
     <<[type |-> "text", text |-> "a"], [type |-> "text", text |-> "b"]>>,
     <<[type |-> "tool_use", text |-> ""]>>,
     <<[type |-> "text", text |-> "a"], [type |-> "tool_use", text |-> ""]>>}

RawResponses ==
    {[Building("assistant", TRUE, content, None, None, None) EXCEPT !.outcome = "raw"] :
        content \in RawContents}

InitModels ==
    /\ conversation = <<>>
    /\ message = <<>>
    /\ txn = [p \in Procs |-> NoTxn]
    /\ clock = 0
    /\ proc = [p \in Procs |-> IdleProc]
    /\ calls = [id \in Ids |-> <<>>]
    /\ built \in BuildingArgs \cup RawResponses
    /\ created = <<>>
    /\ user = <<>>
    /\ op = NoOp
    /\ cli = NoCli

\* PlaydoMessage(role=..., content=..., editor_code=..., stdout=..., stderr=...)
Construct ==
    /\ built.outcome = "none"
    /\ built' = [built EXCEPT !.outcome = IF PlaydoMessageValid(built) THEN "ok"
                                          ELSE "ValidationError"]
    /\ UNCHANGED <<conversation, message, txn, clock, proc, calls, created, user, op, cli>>

\* PlaydoMessage.from_anthropic_message(message): from_anthropic_content asserts on every
\* block that its type is "text", then PlaydoMessage(role=..., content=[...]) is built
FromAnthropic ==
    /\ built.outcome = "raw"
    /\ LET raw == [role |-> built.role, content |-> built.content]
           m == from_anthropic_message(raw)
           args == [Building(m.role, TRUE, m.content, m.editor_code, m.stdout, m.stderr)
                       EXCEPT !.from_raw = TRUE]
       IN built' = IF ~TextOnly(raw) THEN [built EXCEPT !.outcome = "AssertionError"]
                   ELSE [args EXCEPT !.outcome = IF PlaydoMessageValid(args) THEN "ok"
                                                  ELSE "ValidationError"]
    /\ UNCHANGED <<conversation, message, txn, clock, proc, calls, created, user, op, cli>>

\* message.to_anthropic_message()
ToWire ==
    /\ built.outcome = "ok" /\ ~built.wired
    /\ built' = [built EXCEPT !.wired = TRUE,
                              !.wire = to_anthropic_message(
                                  PlaydoMessage(built.role, built.content, built.editor_code,
                                                built.stdout, built.stderr))]
    /\ UNCHANGED <<conversation, message, txn, clock, proc, calls, created, user, op, cli>>

NextModels == Construct \/ FromAnthropic \/ ToWire

SpecModels == InitModels /\ [][NextModels]_vars

\* ---------------------------------------------------------------------
\* conversation_repository.py, the scoped block: one program that enters
\* `with conversation_repository(db_path) as repo:`, makes calls on repo and leaves
\* ---------------------------------------------------------------------
\* ConversationRepository(db_path): it returns, the assert on db_path.exists() fails, or
\* sqlite3.connect raises
ConstructOutcomes == {"ok", "AssertionError", "sqlite3.OperationalError"}

\* try: conversation_repository = ConversationRepository(db_path); yield ...
EnterBlock(p, outcome) ==
    /\ proc[p].pc = "idle" /\ p \in SerialProcs
    /\ proc' = [proc EXCEPT ![p] =
                 IF outcome = "ok"
                 THEN [IdleProc EXCEPT !.pc = "s_body", !.keep = TRUE, !.serial = TRUE,
                                       !.conn = "open", !.bound = TRUE]
                 ELSE [IdleProc EXCEPT !.pc = "s_finally", !.keep = TRUE, !.serial = TRUE,
                                       !.raised = outcome]]
    /\ UNCHANGED <<conversation, message, txn, clock, calls, built, created, user, op, cli>>

\* the per-call fields start afresh, the repository and its connection stay
SessionCall(p, kind, id, batch, pc) ==
    [Begin(p, TRUE, kind, id, batch, "none", pc)
        EXCEPT !.keep = TRUE, !.conn = proc[p].conn, !.bound = proc[p].bound,
               !.closes = proc[p].closes, !.reserve = Len(batch)]

\* repo.create_new_conversation()
CallCreate(p) ==
    /\ proc[p].pc = "s_body"
    /\ Len(Tables(p).conversation) < MaxConv
    /\ proc' = [proc EXCEPT ![p] = SessionCall(p, "create", 0, <<>>, "c_insert")]
    /\ UNCHANGED <<conversation, message, txn, clock, calls, built, created, user, op, cli>>

\* repo.add_messages_to_conversation(id, batch)
CallAdd(p, id, batch) ==
    /\ proc[p].pc = "s_body"
    /\ Len(Tables(p).message) + Len(batch) <= MaxRows
    /\ proc' = [proc EXCEPT ![p] = SessionCall(p, "add", id, batch, "a_select")]
    /\ UNCHANGED <<conversation, message, txn, clock, calls, built, created, user, op, cli>>

\* repo.get_conversation(id)
CallGet(p, id) ==
    /\ proc[p].pc = "s_body"
    /\ proc' = [proc EXCEPT ![p] = SessionCall(p, "get", id, <<>>, "g_conv")]
    /\ UNCHANGED <<conversation, message, txn, clock, calls, built, created, user, op, cli>>

\* the INSERT fails in the storage layer (sqlite3.OperationalError: disk I/O error, database
\* or disk is full).  SQLite undoes the failed statement and keeps the transaction, or
\* rolls the whole transaction back; the method has no except clause and no rollback
AddInsertError(p, rolled_back) ==
    /\ proc[p].pc = "a_insert"
    /\ CanWrite(p)
    /\ txn' = [txn EXCEPT ![p] =
                 IF rolled_back THEN NoTxn
                 ELSE [open |-> TRUE, conversation |-> Tables(p).conversation,
                       message |-> Tables(p).message]]
    /\ proc' = [proc EXCEPT ![p].pc = "returned", ![p].status = "sqlite3.Error",
                            ![p].error = "sqlite3.Error", ![p].result = NoConversation,
                            ![p].reserve = 0]
    /\ UNCHANGED <<conversation, message, clock, calls, built, created, user, op, cli>>

CallSucceeded(p) == proc[p].status \in {"201", "200", "ok"}

\* the call is over: the body goes on, also after an exception it catches; an exception it
\* does not catch leaves the body
AfterCall(p, caught) ==
    /\ proc[p].pc = "returned" /\ proc[p].keep
    /\ proc' = [proc EXCEPT ![p].pc = IF CallSucceeded(p) \/ caught THEN "s_body"
                                      ELSE "s_finally",
                            ![p].raised = IF CallSucceeded(p) \/ caught THEN "" ELSE proc[p].status]
    /\ UNCHANGED <<conversation, message, txn, clock, calls, built, created, user, op, cli>>

\* the body ends: normally, or with an exception of its own
BodyLeaves(p, exc) ==
    /\ proc[p].pc = "s_body"
    /\ proc' = [proc EXCEPT ![p].pc = "s_finally", ![p].raised = exc]
    /\ UNCHANGED <<conversation, message, txn, clock, calls, built, created, user, op, cli>>

\* finally: conversation_repository.cleanup().  The name is a local of the generator:
\* when the constructor raised it was never bound, and the finally clause raises
\* UnboundLocalError in place of the constructor's exception.  conn.close() rolls an open
\* transaction back.
ExitBlock(p) ==
    /\ proc[p].pc = "s_finally"
    /\ IF proc[p].bound
       THEN /\ proc' = [proc EXCEPT ![p].pc = "s_done", ![p].conn = "closed",
                                    ![p].closes = @ + 1, ![p].propagated = proc[p].raised]
            /\ txn' = [txn EXCEPT ![p] = NoTxn]
       ELSE /\ proc' = [proc EXCEPT ![p].pc = "s_done", ![p].propagated = "UnboundLocalError"]
            /\ UNCHANGED txn
    /\ UNCHANGED <<conversation, message, clock, calls, built, created, user, op, cli>>

BodyExceptions == {"", "KeyboardInterrupt"}

NextRepo ==
    \/ \E p \in SerialProcs :
           \/ \E outcome \in ConstructOutcomes : EnterBlock(p, outcome)
           \/ CallCreate(p)
           \/ \E id \in Ids, batch \in Batches(TRUE) : CallAdd(p, id, batch)
           \/ \E id \in Ids : CallGet(p, id)
           \/ CreateInsert(p)
           \/ AddSelectMax(p)
           \/ AddInsert(p)
           \/ \E rolled_back \in BOOLEAN : AddInsertError(p, rolled_back)
           \/ AddUpdate(p)
           \/ Commit(p)
           \/ GetSelectConversation(p)
           \/ GetSelectMessages(p)
           \/ \E caught \in BOOLEAN : AfterCall(p, caught)
           \/ \E exc \in BodyExceptions : BodyLeaves(p, exc)
           \/ ExitBlock(p)
    \/ Tick

SpecRepo == Init /\ [][NextRepo]_vars

\* ---------------------------------------------------------------------
\* cli/cli_app.py and cli/historical_conversation.py: the chat program.  It runs inside
\* `with conversation_repository(db_path)`, alone on the database.
\* ---------------------------------------------------------------------
MaxInputs == 2     \* non-empty inputs that find room in the message table

CliProc == "h1"

\* what sys.stdin.read() returns
CliTexts == {"", " ", "hi"}

\* what the messages API answers to the chat program
CliResponses == ApiResponses \cup {[role |-> "assistant", content |-> <<>>]}

\* what messages.create raises
BridgeErrors == {"anthropic.InternalServerError", "anthropic.APIConnectionError"}

\* print(f"{message.role}: {message.content[0].text}") raises IndexError
PrintRaises(messages) == \E j \in DOMAIN messages : messages[j].content = <<>>

\* an exception leaves _chatloop and the with block of cli_app.py
CliCrash(exc) ==
    /\ cli' = [cli EXCEPT !.pc = "crashed", !.raised = exc]
    /\ proc' = [proc EXCEPT ![CliProc].pc = "s_finally", ![CliProc].raised = exc]

\* cli_app.py and run_historical_conversation: the repository is opened, an id is chosen
\* among get_all_conversation_ids() (0: none), the conversation is loaded or created
CliRun(choice) ==
    /\ proc[CliProc].pc \in {"idle", "s_done"}
    /\ cli.pc \in {"off", "done", "crashed"}
    /\ choice = 0 => Len(conversation) + Cardinality(Creating) < MaxConv
    /\ choice # 0 => choice \in DOMAIN conversation
    /\ proc' = [proc EXCEPT ![CliProc] =
                 [(IF choice = 0
                   THEN Begin(CliProc, TRUE, "create", 0, <<>>, "none", "c_insert")
                   ELSE Begin(CliProc, TRUE, "get", choice, <<>>, "none", "g_conv"))
                     EXCEPT !.keep = TRUE, !.conn = "open", !.bound = TRUE]]
    /\ cli' = [NoCli EXCEPT !.pc = "loading"]
    /\ UNCHANGED <<conversation, message, txn, clock, calls, built, created, user, op>>

\* _chatloop begins: the history is printed
CliLoaded ==
    /\ cli.pc = "loading" /\ proc[CliProc].pc = "returned"
    /\ IF PrintRaises(proc[CliProc].result.messages)
       THEN CliCrash("IndexError")
       ELSE /\ cli' = [cli EXCEPT !.pc = "input", !.conversation = proc[CliProc].result,
                                  !.loaded = Len(proc[CliProc].result.messages)]
            /\ proc' = [proc EXCEPT ![CliProc].pc = "s_body"]
    /\ UNCHANGED <<conversation, message, txn, clock, calls, built, created, user, op>>

\* variant: no check for an empty input
CliInputAny(text) ==
    /\ cli.pc = "input" /\ proc[CliProc].pc = "s_body"
    /\ Len(message) + 2 <= 2 * MaxInputs
    /\ cli' = [cli EXCEPT !.last_input = text, !.pc = "add_user",
                          !.inputs = IF Blank(text) THEN @ ELSE @ + 1]
    /\ proc' = [proc EXCEPT ![CliProc] =
                 SessionCall(CliProc, "add", cli.conversation.id,
                             <<user_message(text, None, None, None)>>, "a_select")]
    /\ UNCHANGED <<conversation, message, txn, clock, calls, built, created, user, op>>

\* lines 97-108: the input is read; an empty one is refused, any other becomes the user
\* message that add_messages_to_conversation appends
CliInput(text) ==
    /\ cli.pc = "input" /\ proc[CliProc].pc = "s_body"
    /\ ~Blank(text) => Len(message) + 2 <= 2 * MaxInputs
    /\ IF Blank(text)
       THEN /\ cli' = [cli EXCEPT !.last_input = text]
            /\ UNCHANGED proc
       ELSE /\ cli' = [cli EXCEPT !.last_input = text, !.pc = "add_user", !.inputs = @ + 1]
            /\ proc' = [proc EXCEPT ![CliProc] =
                         SessionCall(CliProc, "add", cli.conversation.id,
                                     <<user_message(text, None, None, None)>>, "a_select")]
    /\ UNCHANGED <<conversation, message, txn, clock, calls, built, created, user, op>>

\* lines 101-103: KeyboardInterrupt while reading ends the loop
CliInterrupt ==
    /\ cli.pc = "input" /\ proc[CliProc].pc = "s_body"
    /\ cli' = [cli EXCEPT !.pc = "done"]
    /\ proc' = [proc EXCEPT ![CliProc].pc = "s_finally", ![CliProc].raised = ""]
    /\ UNCHANGED <<conversation, message, txn, clock, calls, built, created, user, op>>

\* line 108 returns or raises
CliUserAppended ==
    /\ cli.pc = "add_user" /\ proc[CliProc].pc = "returned"
    /\ IF CallSucceeded(CliProc)
       THEN /\ cli' = [cli EXCEPT !.pc = "bridge", !.conversation = proc[CliProc].result,
                                  !.user_appends = @ + 1]
            /\ proc' = [proc EXCEPT ![CliProc].pc = "s_body"]
       ELSE CliCrash(proc[CliProc].status)
    /\ UNCHANGED <<conversation, message, txn, clock, calls, built, created, user, op>>

\* the argument of a bridge call, and the appends made before it
BridgeCall ==
    [messages |-> cli.conversation.messages,
     appends |-> cli.user_appends + cli.assistant_appends]

\* line 109, _get_next_assistant_resp(conversation.messages) returns: line 112 appends
CliBridgeReturn(raw) ==
    /\ cli.pc = "bridge" /\ proc[CliProc].pc = "s_body"
    /\ IF TextOnly(raw)
       THEN /\ cli' = [cli EXCEPT !.pc = "add_assistant", !.bridge_calls = @ + 1,
                                  !.bridge_args = Append(@, BridgeCall),
                                  !.responses = @ + 1,
                                  !.response = from_anthropic_message(raw)]
            /\ proc' = [proc EXCEPT ![CliProc] =
                         SessionCall(CliProc, "add", cli.conversation.id,
                                     <<from_anthropic_message(raw)>>, "a_select")]
       ELSE /\ cli' = [cli EXCEPT !.pc = "crashed", !.raised = "AssertionError",
                                  !.bridge_calls = @ + 1,
                                  !.bridge_args = Append(@, BridgeCall)]
            /\ proc' = [proc EXCEPT ![CliProc].pc = "s_finally",
                                    ![CliProc].raised = "AssertionError"]
    /\ UNCHANGED <<conversation, message, txn, clock, calls, built, created, user, op>>

\* line 109 raises: lines 117-119 catch anthropic.InternalServerError and go on with the
\* next input; any other exception leaves the loop
CliBridgeRaise(exc) ==
    /\ cli.pc = "bridge" /\ proc[CliProc].pc = "s_body"
    /\ IF exc = "anthropic.InternalServerError"
       THEN /\ cli' = [cli EXCEPT !.pc = "input", !.bridge_calls = @ + 1,
                                  !.bridge_args = Append(@, BridgeCall), !.failed = @ + 1]
            /\ UNCHANGED proc
       ELSE /\ cli' = [cli EXCEPT !.pc = "crashed", !.raised = exc, !.bridge_calls = @ + 1,
                                  !.bridge_args = Append(@, BridgeCall), !.failed = @ + 1]
            /\ proc' = [proc EXCEPT ![CliProc].pc = "s_finally", ![CliProc].raised = exc]
    /\ UNCHANGED <<conversation, message, txn, clock, calls, built, created, user, op>>

\* line 112 returns or raises; line 115 prints response.content[0].text
CliAssistantAppended ==
    /\ cli.pc = "add_assistant" /\ proc[CliProc].pc = "returned"
    /\ IF ~CallSucceeded(CliProc)
       THEN CliCrash(proc[CliProc].status)
       ELSE IF PrintRaises(<<cli.response>>)
       THEN /\ cli' = [cli EXCEPT !.pc = "crashed", !.raised = "IndexError",
                                  !.conversation = proc[CliProc].result,
                                  !.assistant_appends = @ + 1]
            /\ proc' = [proc EXCEPT ![CliProc].pc = "s_finally",
                                    ![CliProc].raised = "IndexError"]
       ELSE /\ cli' = [cli EXCEPT !.pc = "input", !.conversation = proc[CliProc].result,
                                  !.assistant_appends = @ + 1]
            /\ proc' = [proc EXCEPT ![CliProc].pc = "s_body"]
    /\ UNCHANGED <<conversation, message, txn, clock, calls, built, created, user, op>>

NextCli ==
    \/ \E choice \in 0..MaxConv : CliRun(choice)
    \/ CliLoaded
    \/ \E text \in CliTexts : CliInput(text)
    \/ CliInterrupt
    \/ CliUserAppended
    \/ \E raw \in CliResponses : CliBridgeReturn(raw)
    \/ \E exc \in BridgeErrors : CliBridgeRaise(exc)
    \/ CliAssistantAppended
    \/ CreateInsert(CliProc)
    \/ AddSelectMax(CliProc)
    \/ AddInsert(CliProc)
    \/ (\E rolled_back \in BOOLEAN : AddInsertError(CliProc, rolled_back))
    \/ AddUpdate(CliProc)
    \/ Commit(CliProc)
    \/ GetSelectConversation(CliProc)
    \/ GetSelectMessages(CliProc)
    \/ ExitBlock(CliProc)

SpecCli == Init /\ [][NextCli]_vars

\* ---------------------------------------------------------------------
\* conversations written through send_new_message and the chat program only: the handlers
\* serve create and send requests concurrently, the chat program runs next to them
\* ---------------------------------------------------------------------
NextSend ==
    \/ \E p \in Procs :
           \/ StartCreate(p, FALSE)
           \/ \E id \in SharedIds, data \in SendData(FALSE) : StartSend(p, FALSE, id, data)
           \/ CreateInsert(p)
           \/ AddSelectMax(p)
           \/ AddInsert(p)
           \/ AddUpdate(p)
           \/ Commit(p)
           \/ GetSelectConversation(p)
           \/ GetSelectMessages(p)
           \/ \E raw \in ApiResponses : BridgeReturn(p, raw)
           \/ BridgeRaise(p)
           \/ ~proc[p].keep /\ Finish(p)
    \/ \E choice \in 0..MaxConv : CliRun(choice)
    \/ CliLoaded
    \/ \E text \in CliTexts : CliInput(text)
    \/ CliInterrupt
    \/ CliUserAppended
    \/ \E raw \in CliResponses : CliBridgeReturn(raw)
    \/ \E exc \in BridgeErrors : CliBridgeRaise(exc)
    \/ CliAssistantAppended
    \/ ExitBlock(CliProc)

SpecSend == Init /\ [][NextSend]_vars

\* ---------------------------------------------------------------------
\* the user operations, one after the other
\* ---------------------------------------------------------------------
NextUsers ==
    \/ \E username \in Usernames, email \in Emails, salt \in Salts :
           RepoCreateUser(username, email, salt)
    \/ \E user_id \in UserIds, updates \in UserUpdates : RepoUpdateUser(user_id, updates)
    \/ \E user_id \in UserIds : RepoDeleteUser(user_id)
    \/ \E username \in Usernames, email \in Emails, salt \in Salts,
          password \in {Strong} \cup WeakPasswords :
           SvcCreateUser(username, email, password, salt)
    \/ \E j \in 1..MaxUsers, new \in ServiceUpdates, salt \in Salts : SvcUpdateUser(j, new, salt)
    \/ \E data \in LoginData : Login(data)
    \/ \E username \in Usernames, password \in {Strong, Strong2} : LoginUser(username, password)
    \/ UserOpReturns

SpecUsers == Init /\ [][NextUsers]_vars

\* ---------------------------------------------------------------------
\* properties
\* ---------------------------------------------------------------------
IsPrefix(s, t) == Len(s) <= Len(t) /\ SubSeq(t, 1, Len(s)) = s

Returned(p) == proc[p].pc = "returned"

\* C1: under serial use, a conversation returned by the repository holds exactly the
\* messages of all add_messages_to_conversation calls made for its id so far, the batches
\* in call order and each batch in the order given.
OrderingInvariant ==
    \A p \in Procs :
        (proc[p].pc \in {"returned", "bridge"} /\ proc[p].result.id # 0)
        => proc[p].result.messages = calls[proc[p].result.id]

OrderingWitness ==
    \E p \in Procs :
        /\ Returned(p) /\ proc[p].kind = "add" /\ proc[p].status = "ok"
        /\ Len(proc[p].new_messages) = 1
        /\ Len(proc[p].result.messages) = 2
        /\ proc[p].result.messages[1] # proc[p].result.messages[2]
        /\ proc[p].result.messages = calls[proc[p].conversation_id]

\* C2: an add_messages_to_conversation call for an id that does not exist fails with
\* not-found and leaves the message table as it was before the call.
AppendToMissingAppendsNothing ==
    \A p \in Procs :
        (/\ Returned(p)
         /\ proc[p].kind \in {"add", "send"}
         /\ proc[p].conversation_id \notin DOMAIN proc[p].before.conversation
         /\ proc[p].new_messages # <<>>)
        => /\ proc[p].status \in {"ValueError", "404"}
           /\ message = proc[p].before.message

\* C3: create_new_conversation returns a conversation with no messages.
CreateReturnsEmpty ==
    \A p \in Procs :
        (Returned(p) /\ proc[p].kind = "create" /\ proc[p].status = "201")
        => proc[p].result.messages = <<>>

\* C4: under serial use the rows of a conversation with n messages carry the sequence
\* numbers 0..n-1, in insertion order, in the committed table and in every open transaction.
GapFree(rows) ==
    \A id \in Ids :
        LET mine == SelectWhere(rows, id)
        IN \A j \in DOMAIN mine : mine[j].sequence_number = j - 1

SequenceNumbersGapFree ==
    /\ GapFree(message)
    /\ \A p \in Procs : GapFree(Tables(p).message)

SequenceNumbersWitness ==
    \E p \in Procs, id \in Ids :
        /\ Returned(p) /\ proc[p].kind = "add" /\ proc[p].status = "ok"
        /\ proc[p].conversation_id = id
        /\ proc[p].next_sequence = 1
        /\ SeqNumbers(message, id) = {0, 1}

\* C5: when the Response Bridge call of send_new_message fails, the call was made once and
\* the message table is the one found right after the user message was appended: the user
\* message is the conversation's last message and no assistant message follows it.
BridgeFailed(p) ==
    /\ Returned(p) /\ proc[p].kind = "send"
    /\ proc[p].error \in {"anthropic.APIError", "AssertionError"}

BridgeFailureIsolation ==
    \A p \in Procs :
        BridgeFailed(p)
        => /\ proc[p].bridge_calls = 1
           /\ message = proc[p].after_user
           /\ LoadMessages(message, proc[p].conversation_id) = proc[p].prev_messages
           /\ proc[p].prev_messages[Len(proc[p].prev_messages)] = proc[p].new_messages[1]

BridgeFailureWitness ==
    \E p \in Procs :
        /\ BridgeFailed(p)
        /\ proc[p].error = "anthropic.APIError"
        /\ Len(LoadMessages(message, proc[p].conversation_id)) = 1

\* C6: two appends to one conversation that computed the same next sequence number do not
\* both succeed with distinct numbers: one of them fails on the insert, or two rows of the
\* conversation carry the same sequence number.
Appended(p) ==
    /\ Returned(p) /\ proc[p].kind \in {"add", "send"}
    /\ proc[p].new_messages # <<>>

DuplicateSequence(rows, id) ==
    \E j, k \in DOMAIN rows :
        /\ j # k
        /\ rows[j].conversation_id = id /\ rows[k].conversation_id = id
        /\ rows[j].sequence_number = rows[k].sequence_number

InsertFailed(p) ==
    \/ proc[p].status = "sqlite3.Error"
    \/ proc[p].kind = "send" /\ proc[p].error = "sorry"

SameSequenceCollides ==
    \A p, q \in Procs :
        (/\ p # q
         /\ Appended(p) /\ Appended(q)
         /\ proc[p].conversation_id = proc[q].conversation_id
         /\ proc[p].next_sequence = proc[q].next_sequence)
        => \/ InsertFailed(p) \/ InsertFailed(q)
           \/ DuplicateSequence(message, proc[p].conversation_id)

SameSequenceWitness ==
    \E p, q \in Procs :
        /\ p # q
        /\ Appended(p) /\ Appended(q)
        /\ proc[p].conversation_id = proc[q].conversation_id
        /\ proc[p].next_sequence = proc[q].next_sequence
        /\ proc[p].status = "ok" /\ InsertFailed(q)

\* C7: a get_conversation that runs while appends commit returns one committed state of the
\* conversation: its messages together with the updated_at of the same commit.
ReadsAreSnapshots ==
    \A p \in Procs :
        (Returned(p) /\ proc[p].kind = "get" /\ proc[p].status = "200")
        => proc[p].result \in proc[p].seen

\* C8: a message appended and reloaded is equal in role, content, editor_code, stdout and
\* stderr; None stays None and the empty string stays the empty string.
RoundTrip ==
    \A p \in Procs :
        (Returned(p) /\ proc[p].kind = "add" /\ proc[p].status = "ok")
        => \A j \in DOMAIN proc[p].new_messages :
               LET m == proc[p].new_messages[j]
                   r == proc[p].result.messages[proc[p].next_sequence + j]
               IN /\ r.role = m.role /\ r.content = m.content
                  /\ r.editor_code = m.editor_code
                  /\ r.stdout = m.stdout /\ r.stderr = m.stderr

RoundTripWitness ==
    \E p \in Procs :
        /\ Returned(p) /\ proc[p].kind = "add" /\ proc[p].status = "ok"
        /\ \E j, k \in DOMAIN proc[p].new_messages :
               /\ proc[p].new_messages[j].stdout = ""
               /\ proc[p].result.messages[proc[p].next_sequence + j].stdout = ""
               /\ proc[p].new_messages[k].stdout = None
               /\ proc[p].result.messages[proc[p].next_sequence + k].stdout = None

\* C9: the message list a conversation loads only ever grows at its end: what is loaded
\* at one time is a prefix of what is loaded at any later time.
AppendOnly ==
    [][message' # message =>
          \A id \in Ids : IsPrefix(LoadMessages(message, id), LoadMessages(message', id))]_vars

AppendOnlyWitness ==
    \E p \in Procs :
        /\ Returned(p) /\ proc[p].kind = "get" /\ proc[p].status = "200"
        /\ Len(proc[p].result.messages) = 2
        /\ Len(calls[proc[p].conversation_id]) = 2
        /\ proc[p].result.messages[1].role = "assistant"

\* C10: get_conversation for an id with no conversation row fails with not-found (HTTP 404)
\* and leaves both tables as they were.
GetMissingNotFound ==
    \A p \in Procs :
        (/\ Returned(p) /\ proc[p].kind = "get"
         /\ proc[p].conversation_id \notin DOMAIN conversation)
        => /\ proc[p].status = "404"
           /\ proc[p].error = "not found"
           /\ conversation = proc[p].before.conversation
           /\ message = proc[p].before.message

GetMissingWitness ==
    \E p \in Procs :
        /\ Returned(p) /\ proc[p].kind = "get" /\ proc[p].status = "404"
        /\ proc[p].conversation_id \notin DOMAIN conversation
        /\ conversation # <<>>

OutputWithoutCodeRejected ==
    \A p \in Procs :
        (/\ Returned(p) /\ proc[p].kind = "send"
         /\ proc[p].data.is_json /\ proc[p].data.has_message
         /\ proc[p].data.editor_code = None
         /\ (proc[p].data.stdout # None \/ proc[p].data.stderr # None))
        => /\ proc[p].status = "400"
           /\ proc[p].error = "Cannot provide stdout or stderr if editor_code is null"
           /\ message = proc[p].before.message
           /\ proc[p].bridge_calls = 0

OutputWithoutCodeWitness ==
    \E p \in Procs :
        /\ Returned(p) /\ proc[p].kind = "send" /\ proc[p].status = "400"
        /\ proc[p].data.editor_code = None /\ proc[p].data.stdout = "x"
        /\ proc[p].conversation_id \in DOMAIN conversation
        /\ message # <<>>
\* C13: a send_new_message whose JSON body carries a message, a non-null editor_code and
\* exactly one null among stdout and stderr is answered 400 ("Must provide both stdout and
\* stderr if code has been run, or neither if code has not been run"), persists nothing and
\* calls no bridge; with both null or both non-null the request is accepted.
Accepted(p) == proc[p].stage # "none"

OutputPairing ==
    \A p \in Procs :
        (/\ Returned(p) /\ proc[p].kind = "send"
         /\ proc[p].data.is_json /\ proc[p].data.has_message
         /\ proc[p].data.editor_code # None)
        => IF (proc[p].data.stdout = None) # (proc[p].data.stderr = None)
           THEN /\ proc[p].status = "400"
                /\ proc[p].error = "Must provide both stdout and stderr if code has been run, or neither if code has not been run"
                /\ message = proc[p].before.message
                /\ proc[p].bridge_calls = 0
           ELSE Accepted(p)
\* C14: building a PlaydoMessage fails with a validation error when editor_code is None and
\* stdout or stderr is not (None, "x", None), when exactly one of stdout and stderr is None
\* ("x", "a", None), or when the content list is empty; with editor_code, stdout and stderr
\* all None and a non-empty content list it succeeds.
PairingViolated(m) ==
    \/ m.editor_code = None /\ (m.stdout # None \/ m.stderr # None)
    \/ (m.stdout = None) # (m.stderr = None)

ModelRejectsInvalid ==
    built.outcome \in {"ok", "ValidationError"}
    => /\ (PairingViolated(built) \/ built.content = <<>>) => built.outcome = "ValidationError"
       /\ (/\ built.role \in {"user", "assistant"}
           /\ built.content = <<PlaydoContent("hi")>>
           /\ built.editor_code = None /\ built.stdout = None /\ built.stderr = None)
          => built.outcome = "ok"
\* C15: every call of the Response Bridge made by send_new_message is given a non-empty
\* message list whose last element is the user message that request has just appended, also
\* when two send_new_message requests on one conversation interleave.
BridgeGetsUserLast ==
    \A p \in Procs :
        proc[p].pc = "bridge"
        => /\ proc[p].prev_messages # <<>>
           /\ proc[p].prev_messages[Len(proc[p].prev_messages)].role = "user"
           /\ proc[p].prev_messages[Len(proc[p].prev_messages)] =
                  user_message(proc[p].data.message, proc[p].data.editor_code,
                               proc[p].data.stdout, proc[p].data.stderr)
\* the commit of an append to conversation id by handler p, in this step
AppendCommits(p, id) ==
    /\ proc[p].pc = "a_commit" /\ proc'[p].pc = "g_conv"
    /\ proc[p].conversation_id = id

TimestampsKept(id) ==
    /\ id \in DOMAIN conversation'
    /\ conversation'[id].created_at = conversation[id].created_at
    /\ conversation'[id].updated_at >= conversation[id].updated_at

\* C16 as stated: over the appends to a conversation updated_at never decreases, after an
\* append it is not earlier than the time of that append's commit, and created_at keeps the
\* value of the creation.
UpdatedAtNotBeforeCommit ==
    [][\A id \in DOMAIN conversation :
          /\ TimestampsKept(id)
          /\ \A p \in Procs : AppendCommits(p, id) => conversation'[id].updated_at >= clock]_vars

\* C16 amended: over the appends to a conversation updated_at never decreases, after an
\* append it is not earlier than the time at which that append was called (and not later
\* than the time of its commit), and created_at keeps the value of the creation.
UpdatedAtAdvances ==
    [][\A id \in DOMAIN conversation :
          /\ TimestampsKept(id)
          /\ \A p \in Procs :
                 AppendCommits(p, id)
                 => /\ conversation'[id].updated_at >= proc[p].started
                    /\ conversation'[id].updated_at <= clock]_vars

UpdatedAtAdvancesWitness ==
    \E p \in Procs :
        /\ Returned(p) /\ proc[p].kind = "add" /\ proc[p].status = "ok"
        /\ proc[p].started = 1
        /\ proc[p].result.created_at = 0 /\ proc[p].result.updated_at = 1
\* C17: an add_messages_to_conversation on conversation A leaves the message rows (with
\* their sequence numbers), created_at and updated_at of every other conversation unchanged.
OthersUntouched ==
    [][\A p \in Procs, A \in Ids :
          AppendCommits(p, A)
          => \A B \in Ids \ {A} :
                 /\ SelectWhere(message', B) = SelectWhere(message, B)
                 /\ (B \in DOMAIN conversation) = (B \in DOMAIN conversation')
                 /\ B \in DOMAIN conversation => conversation'[B] = conversation[B]]_vars

OthersUntouchedWitness ==
    \E p \in Procs, B \in DOMAIN conversation :
        /\ Returned(p) /\ proc[p].kind = "add" /\ proc[p].status = "ok"
        /\ proc[p].new_messages # <<>>
        /\ B # proc[p].conversation_id
        /\ SelectWhere(message, B) # <<>>
        /\ conversation[B].updated_at < proc[p].result.updated_at
\* C18: get_all_conversation_ids returns exactly the ids that the create_new_conversation
\* calls so far returned, each once; every create returns an id that no earlier create
\* returned, and no id is ever lost.
ListReturnsCreated ==
    /\ \A i, j \in DOMAIN created : i # j => created[i] # created[j]
    /\ \A p \in Procs :
           (Returned(p) /\ proc[p].kind = "list")
           => /\ {proc[p].ids[j] : j \in DOMAIN proc[p].ids} = {created[j] : j \in DOMAIN created}
              /\ Len(proc[p].ids) = Len(created)

ListReturnsCreatedWitness ==
    \E p \in Procs :
        /\ Returned(p) /\ proc[p].kind = "list"
        /\ proc[p].ids = <<1, 2>> /\ created = <<1, 2>>
        /\ SeqNumbers(message, 1) = {}
\* C19: a get_conversation(id) that directly follows another get_conversation(id), with no
\* append in between, returns an equal conversation (id, timestamps, message list), and a
\* read changes nothing that is persisted.
ReadsAreIdempotent ==
    \A p \in Procs :
        (Returned(p) /\ proc[p].kind = "get" /\ proc[p].serial)
        => /\ conversation = proc[p].before.conversation
           /\ message = proc[p].before.message
           /\ proc[p].last_read.id = proc[p].conversation_id
              => /\ proc[p].status = "200"
                 /\ proc[p].result = proc[p].last_read.result

ReadsAreIdempotentWitness ==
    \E p \in Procs :
        /\ Returned(p) /\ proc[p].kind = "get" /\ proc[p].status = "200"
        /\ proc[p].last_read.id = proc[p].conversation_id
        /\ Len(proc[p].result.messages) = 2
        /\ proc[p].result.updated_at < clock
\* C20: the wire form of a user message with code context keeps null and the empty string
\* apart: changing one empty editor_code, stdout or stderr to null changes the wire form; a
\* null stdout or stderr is written as an element marked status="stale_or_not_run", an empty
\* one as an element without the marker; a message with no context at all uses the plain
\* role/content form.
Occurs(sub, s) == \E i \in 0..(Len(s) - Len(sub)) : SubSeq(s, i + 1, i + Len(sub)) = sub

BuiltMessage ==
    PlaydoMessage(built.role, built.content, built.editor_code, built.stdout, built.stderr)

HasContext(m) == m.editor_code # None \/ m.stdout # None \/ m.stderr # None

FromResponseShape ==
    (built.from_raw /\ built.outcome = "ok")
    => /\ built.role = "assistant"
       /\ built.content # <<>>
       /\ built.editor_code = None /\ built.stdout = None /\ built.stderr = None
\* C22: the scoped conversation_repository block closes the connection exactly once on every
\* exit path (normal exit, an exception in the body, a failure while constructing the
\* repository): no connection is left open, and the error that ended the block, if any, is
\* the one propagated.
BlockClosesConnection ==
    \A p \in Procs :
        proc[p].pc = "s_done"
        => /\ proc[p].conn # "open"
           /\ proc[p].closes = (IF proc[p].conn = "closed" THEN 1 ELSE 0)
           /\ proc[p].propagated = proc[p].raised
\* C26: an add_messages_to_conversation call that fails with a storage error part-way
\* through its batch persists none of the batch, also when the same repository is used
\* afterwards: the committed messages of every conversation are exactly those of the add
\* calls that succeeded, whatever a later append or create commits.
FailedBatchPersistsNothing ==
    \A id \in Ids : LoadMessages(message, id) = calls[id]
\* no two users share a username or a lower-cased email
NoDuplicateUsers(rows) ==
    \A j, k \in DOMAIN rows :
        j # k => /\ rows[j].id # rows[k].id
                 /\ rows[j].username # rows[k].username
                 /\ Lower(rows[j].email) # Lower(rows[k].email)

\* the username or the email is held by a user other than the one with id `self`
HeldByOther(rows, username, email, self) ==
    \E j \in DOMAIN rows :
        /\ rows[j].id # self
        /\ \/ username # Absent /\ rows[j].username = username[1]
           \/ email # Absent /\ Lower(rows[j].email) = Lower(email[1])

\* the repository call of op meets a conflict
RepoConflict ==
    \/ /\ op.kind = "create_user"
       /\ HeldByOther(op.before, <<op.username>>, <<op.email>>, 0)
    \/ /\ op.kind = "update_user"
       /\ get_user_by_id(op.before, op.id) # <<>>
       /\ HeldByOther(op.before, op.updates.username, op.updates.email, op.id)

\* C23: creating or updating a user with a username, or a case-insensitively equal email,
\* that a different user holds fails with UserAlreadyExistsError and leaves the user table
\* unchanged; no two users ever share a username or a lower-cased email; updating a user to
\* its own username or email is not a conflict.
UsersStayUnique ==
    /\ NoDuplicateUsers(user)
    /\ RepoConflict => op.raised = "UserAlreadyExistsError" /\ user = op.before
    /\ (/\ op.kind = "update_user"
        /\ get_user_by_id(op.before, op.id) # <<>>
        /\ ~RepoConflict)
       => op.error = None /\ op.raised = ""
\* the password fails the complexity rule: empty, shorter than 12, no letter or no digit
FailsComplexity(password) ==
    \/ Len(password) < 12
    \/ {password[j] : j \in DOMAIN password} \cap Letters = {}
    \/ {password[j] : j \in DOMAIN password} \cap Digits = {}

ServiceWeak ==
    \/ op.kind = "svc_create_user" /\ FailsComplexity(op.password)
    \/ /\ op.kind = "svc_update_user"
       /\ op.updates.password # Absent /\ FailsComplexity(op.updates.password[1])

ServiceConflict ==
    \/ /\ op.kind = "svc_create_user"
       /\ HeldByOther(op.before, <<op.username>>, <<op.email>>, 0)
    \/ /\ op.kind = "svc_update_user"
       /\ HeldByOther(op.before, op.updates.username, op.updates.email, op.id)

\* C24: UserService validates before it writes: create_user or update_user with a password
\* that fails the complexity rule raises ValueError, and (the password being acceptable)
\* with a conflicting email or username raises UserAlreadyExistsError; in both cases the
\* repository's create_user / update_user is never called and the table stays as it was.
ServiceValidatesFirst ==
    op.kind \in {"svc_create_user", "svc_update_user"}
    => /\ ServiceWeak
          => op.raised = "ValueError" /\ op.writes = 0 /\ user = op.before
       /\ (~ServiceWeak /\ ServiceConflict)
          => op.raised = "UserAlreadyExistsError" /\ op.writes = 0 /\ user = op.before

ServiceValidatesFirstWitness ==
    /\ op.kind = "svc_create_user"
    /\ op.raised = "UserAlreadyExistsError" /\ op.writes = 0
    /\ op.username = "u1" /\ op.email = "b@x"
    /\ Len(user) = 2
    /\ \E j \in DOMAIN user : user[j].username = "u1" /\ user[j].email = "a@x"
\* C25: login does not tell an unknown username from a wrong password: both are answered
\* 401 with the error "Invalid credentials" and no token, and login_user returns None for
\* both; a token, or a user, is returned only when the user exists and the password verifies.
Verifies(rows, username, password) ==
    \E j \in DOMAIN rows :
        /\ rows[j].username = username
        /\ rows[j].password_hash = Argon2Hash(password \o rows[j].password_salt)

SendNotFoundOnlyWhenMissing ==
    \A p \in Procs :
        (Returned(p) /\ proc[p].kind = "send")
        => /\ proc[p].status = "404"
              => proc[p].conversation_id \notin DOMAIN proc[p].before.conversation
           /\ BridgeFailed(p) => proc[p].status = "500"
\* the body is JSON with a message field and passes the checks of lines 94-101
PassesPairing(data) ==
    /\ data.is_json /\ data.has_message
    /\ ~(data.editor_code = None /\ (data.stdout # None \/ data.stderr # None))
    /\ (data.stdout = None) = (data.stderr = None)

NullOrBlank(v) == v = None \/ Blank(v)

\* C28: a send_new_message whose message text is blank and whose editor_code, stdout and
\* stderr are each null or blank is answered 400 ("Must provide at least one of: message,
\* editor_code, stdout, stderr") and persists nothing; no request that passes the pairing
\* checks ends in a fault raised by the validation.
BlankSendRejected ==
    \A p \in Procs :
        (Returned(p) /\ proc[p].kind = "send" /\ PassesPairing(proc[p].data))
        => /\ (/\ Blank(proc[p].data.message) /\ NullOrBlank(proc[p].data.editor_code)
               /\ NullOrBlank(proc[p].data.stdout) /\ NullOrBlank(proc[p].data.stderr))
              => /\ proc[p].status = "400"
                 /\ proc[p].error = "Must provide at least one of: message, editor_code, stdout, stderr"
                 /\ message = proc[p].before.message
           /\ proc[p].error # "AttributeError"
\* the original statement of C29: back at the prompt after n non-empty inputs the chat loop
\* has made 2n appends and n bridge calls, and in a new conversation the k-th bridge call
\* got 2k-1 messages.
ChatLoopTwoAppends ==
    cli.pc = "input"
    => /\ cli.user_appends + cli.assistant_appends = 2 * cli.inputs
       /\ cli.bridge_calls = cli.inputs
       /\ cli.loaded = 0
          => \A k \in DOMAIN cli.bridge_args : Len(cli.bridge_args[k].messages) = 2 * k - 1

\* C29: in the chat loop each non-empty input causes one append of the user message, then
\* one bridge call whose argument is every message persisted so far, the last being the new
\* user message; an assistant response is appended only when the bridge returned one.  Back
\* at the prompt after n non-empty inputs of which f ended with a caught
\* InternalServerError, the loop has made 2n - f appends and n bridge calls; without a
\* failure, in a new conversation, the k-th call got 2k-1 messages.  A blank input causes
\* neither an append nor a bridge call.
ChatLoopCounts ==
    /\ cli.bridge_calls = Len(cli.bridge_args)
    /\ cli.assistant_appends <= cli.responses
    /\ cli.responses + cli.failed <= cli.bridge_calls
    /\ cli.bridge_calls <= cli.user_appends
    /\ cli.user_appends <= cli.inputs
    /\ cli.inputs <= cli.user_appends + 1
    /\ cli.pc = "input"
       => /\ cli.user_appends = cli.inputs
          /\ cli.bridge_calls = cli.inputs
          /\ cli.assistant_appends = cli.inputs - cli.failed
    /\ cli.pc \in {"input", "bridge"}
       => /\ LoadMessages(message, cli.conversation.id) = cli.conversation.messages
          /\ Len(cli.conversation.messages)
                 = cli.loaded + cli.user_appends + cli.assistant_appends
    /\ \A k \in DOMAIN cli.bridge_args :
           LET call == cli.bridge_args[k]
           IN /\ Len(call.messages) = cli.loaded + call.appends
              /\ call.messages[Len(call.messages)] = user_message("hi", None, None, None)
              /\ k <= call.appends /\ call.appends <= 2 * k - 1
              /\ cli.failed = 0 => call.appends = 2 * k - 1

ChatLoopCountsWitness ==
    /\ cli.pc = "input" /\ Blank(cli.last_input)
    /\ cli.inputs = 2 /\ cli.failed = 1 /\ cli.assistant_appends = 1
    /\ Len(cli.bridge_args[2].messages) = 2
    /\ Len(message) = 3
Count(msgs, n, role) == Cardinality({j \in 1..n : msgs[j].role = role})

\* the original statement of C30: in a conversation written only through send_new_message
\* or the chat loop the roles strictly alternate, starting with user.
RolesAlternate ==
    \A id \in DOMAIN conversation :
        LET msgs == LoadMessages(message, id)
        IN \A j \in DOMAIN msgs :
               msgs[j].role = IF j % 2 = 1 THEN "user" ELSE "assistant"

\* C30: in a conversation written only through send_new_message or the chat loop the first
\* message has role user and, up to any position, the assistant messages do not outnumber
\* the user messages: every assistant message follows the user message it answers.  Two
\* user messages in a row occur (after a bridge failure, or when sends interleave).
AssistantFollowsUser ==
    \A id \in DOMAIN conversation :
        LET msgs == LoadMessages(message, id)
        IN \A n \in 0..Len(msgs) : Count(msgs, n, "assistant") <= Count(msgs, n, "user")

AssistantFollowsUserWitness ==
    /\ cli.pc = "input" /\ cli.failed = 1 /\ cli.loaded = 0
    /\ LET msgs == LoadMessages(message, cli.conversation.id)
       IN /\ Len(msgs) = 3
          /\ msgs[1].role = "user" /\ msgs[2].role = "user" /\ msgs[3].role = "assistant"
====
